---- MODULE Spec2Model ----
(***************************************************************************)
(* A model of the robotic-dog control software:                            *)
(*   - LegController (hardware/motors.py): the leg position table, the     *)
(*     movement lock, the moving flag and the walk/turn gait threads;      *)
(*   - NavigationAI (ai/navigation.py): the per-tick movement decision;    *)
(*   - RoboticDogController (core/robot_controller.py): navigate requests  *)
(*     and the autonomous tick.                                            *)
(* Angles are integers in units of 1/Unit degree, so that the values       *)
(* smooth_move_leg interpolates are exact.  A thread's step is one access  *)
(* to shared state (a read of the moving flag, a copy of a leg's angles,   *)
(* one joint written under the lock) with the local computation around it. *)
(***************************************************************************)
EXTENDS Integers, Sequences, FiniteSets, TLC

VARIABLES
    current_positions,  \* LegController.current_positions: leg -> joint -> angle
    moving,             \* LegController.moving
    movement_lock,      \* holder of LegController.movement_lock, or Free
    tasks,              \* the gait threads created so far, in creation order
    caller,             \* a client thread calling the setters of LegController
    write_from,         \* the leg's angles when the running set_leg_position took the lock
    view,               \* what the last get_current_positions reader saw
    stopCalls,          \* stop_movement() calls made since the last gait was started
    current_goal,       \* NavigationAI.current_goal
    nav_in,             \* the arguments of the last get_next_movement_command call
    nav_command,        \* what the last get_next_movement_command call returned
    obstacle_map,       \* NavigationAI.obstacle_map: key -> entry
    now,                \* time.time(), in seconds
    plan,               \* the last calculate_path_to_goal call: arguments and result
    swept,              \* the last clear_old_obstacles call: argument, time, keys removed
    autonomous_mode,    \* RoboticDogController.autonomous_mode
    current_command,    \* RoboticDogController.current_command
    movement_active,    \* RoboticDogController.system_status['movement_active']
    gps_location,       \* what GPSController.get_current_location() returns
    frame_obstacles,    \* current_frame_analysis['obstacles']
    tick_result,        \* the command of the last autonomous tick, until another request
    reply               \* the last execute_command('gps', navigate) call: arguments and result

legVars ==
    <<current_positions, moving, movement_lock, tasks, caller, write_from, view, stopCalls>>

mapVars == <<obstacle_map, now, plan, swept>>

navVars == <<current_goal, nav_in, nav_command, obstacle_map, now, plan, swept>>

ctlVars ==
    <<autonomous_mode, current_command, movement_active, gps_location,
      frame_obstacles, tick_result, reply>>

vars ==
    <<current_positions, moving, movement_lock, tasks, caller, write_from, view,
      stopCalls, current_goal, nav_in, nav_command, obstacle_map, now, plan, swept,
      autonomous_mode,
      current_command, movement_active, gps_location, frame_obstacles, tick_result,
      reply>>

----------------------------------------------------------------------------
(* Bounds of the model *)

\* gait threads created in one run
MaxTasks == 2
\* gait threads created in one run beside the client thread and the reader
MaxTableTasks == 1
\* passes of its while loop a gait thread makes in one run
MaxPasses == 1
\* calls the client thread makes in one run
MaxCalls == 1
\* smooth_move_leg calls in one run
MaxSmooth == 1
\* stop_movement() calls counted in one run
MaxStops == 2

\* angle resolution: every interpolation halves at most once per smooth move
Unit == 2 ^ MaxSmooth

Deg(d) == d * Unit

----------------------------------------------------------------------------
(* config.py and plain helpers *)

Legs == {"front_left", "front_right", "rear_left", "rear_right"}

\* a leg name that is not a key of LEG_SERVOS
UnknownLeg == "tail"

Joints == <<"hip", "knee", "ankle">>

JointSet == {"hip", "knee", "ankle"}

Max(a, b) == IF a >= b THEN a ELSE b

Min(a, b) == IF a <= b THEN a ELSE b

IsFront(leg) == leg \in {"front_left", "front_right"}

IsRear(leg) == leg \in {"rear_left", "rear_right"}

IsLeft(leg) == leg \in {"front_left", "rear_left"}

Angles(h, k, a) == [hip |-> h, knee |-> k, ankle |-> a]

\* the items of an angles dict, in insertion order
Entries(a) == << <<"hip", a.hip>>, <<"knee", a.knee>>, <<"ankle", a.ankle>> >>

NoAngles == Angles(0, 0, 0)

\* the value of movement_lock when no thread holds it
Free == -1

\* the client thread's id as a lock holder; gait thread t has id t >= 1
CallerId == 0

----------------------------------------------------------------------------
(* LegController: set_leg_position *)

\* a clamp that forgets the lower limit
ClampUpperOnly(a) == Min(Deg(180), a)

\* angle = max(0, min(180, angle))
Clamp(a) == Max(0, Min(Deg(180), a))

\* one iteration of set_leg_position's loop: a joint of LEG_SERVOS[leg] is
\* clamped and stored, any other key is skipped
WriteJoint(pos, leg, e) ==
    IF e[1] \in JointSet
    THEN [pos EXCEPT ![leg][e[1]] = Clamp(e[2])]
    ELSE pos

\* set_leg_position's loop over angles.items()
RECURSIVE WriteAll(_, _, _)
WriteAll(pos, leg, todo) ==
    IF todo = << >> THEN pos
    ELSE WriteAll(WriteJoint(pos, leg, Head(todo)), leg, Tail(todo))

\* A step of set_leg_position(leg, todo) by thread self, after the leg check:
\* the first step takes the lock, every step writes one joint, the last one
\* releases the lock.  rest is what is left to write.
SetLegStep(self, leg, todo, rest) ==
    /\ movement_lock \in {Free, self}
    /\ write_from' = IF rest = << >> THEN NoAngles
                     ELSE IF movement_lock = Free THEN current_positions[leg]
                     ELSE write_from
    /\ IF todo = << >>
       THEN /\ rest = << >>
            /\ movement_lock' = Free
            /\ UNCHANGED current_positions
       ELSE /\ rest = Tail(todo)
            /\ current_positions' = WriteJoint(current_positions, leg, Head(todo))
            /\ movement_lock' = IF rest = << >> THEN Free ELSE self

----------------------------------------------------------------------------
(* LegController: the gait computations *)

\* _step_cycle / _turn_step, "Lift legs"
LiftAngles(leg, cur, h) ==
    IF IsFront(leg)
    THEN [cur EXCEPT !.knee = Max(Deg(10), cur.knee - h)]
    ELSE [cur EXCEPT !.ankle = Min(Deg(170), cur.ankle + h)]

\* _step_cycle, "Move legs forward/backward"
SwingAngles(leg, cur, dir, len) ==
    LET hip_adjustment == IF dir = "forward" THEN len ELSE -len
    IN  IF IsLeft(leg)
        THEN [cur EXCEPT !.hip = Max(Deg(45), Min(Deg(135), cur.hip + hip_adjustment))]
        ELSE [cur EXCEPT !.hip = Max(Deg(45), Min(Deg(135), cur.hip - hip_adjustment))]

\* a lower phase that sets the knee of every leg, front or rear
LowerKnees(leg, cur) == [cur EXCEPT !.knee = Deg(45)]

\* a lower phase that also brings the hip back to the middle
LowerCentred(leg, cur) ==
    IF IsFront(leg)
    THEN [cur EXCEPT !.knee = Deg(45), !.hip = Deg(90)]
    ELSE [cur EXCEPT !.ankle = Deg(45), !.hip = Deg(90)]

\* _step_cycle / _turn_step, "Lower legs"
LowerAngles(leg, cur) ==
    IF IsFront(leg)
    THEN [cur EXCEPT !.knee = Deg(45)]
    ELSE [cur EXCEPT !.ankle = IF IsRear(leg) THEN Deg(45) ELSE Deg(135)]

\* a rotation that turns the hip the same way for both directions
RotateOneWay(cur, dir, turn_angle) ==
    [cur EXCEPT !.hip = Max(Deg(45), Min(Deg(135), cur.hip + turn_angle))]

\* _turn_step, "Rotate hip for turn"
RotateAngles(cur, dir, turn_angle) ==
    LET hip_adjustment == IF dir = "left" THEN turn_angle ELSE -turn_angle
    IN  [cur EXCEPT !.hip = Max(Deg(45), Min(Deg(135), cur.hip + hip_adjustment))]

\* a trot that steps front_right and rear_left first
WalkPairSwapped(i) ==
    IF i = 1 THEN <<"front_right", "rear_left">> ELSE <<"front_left", "rear_right">>

\* _walk_gait: the diagonal pair stepped by the i-th _step_cycle call of a pass
WalkPair(i) ==
    IF i = 1 THEN <<"front_left", "rear_right">> ELSE <<"front_right", "rear_left">>

\* a turn that keeps legs_order as it is for a right turn
LegsOrderKept(dir) == <<"front_left", "rear_left", "front_right", "rear_right">>

\* _turn_gait: legs_order, reversed for a right turn
LegsOrder(dir) ==
    IF dir = "right"
    THEN <<"rear_right", "front_right", "rear_left", "front_left">>
    ELSE <<"front_left", "rear_left", "front_right", "rear_right">>

\* step_height=30, step_length=50, turn_angle=30: the defaults of the calls
StepHeight == 30

StepLength == 50

TurnAngle == 30

\* speed values of a gait call, in units of 0.0001: 0 and 1.0
Speeds == {0, 10000}

----------------------------------------------------------------------------
(* LegController: the gait threads *)

\* a gait thread as created by walk_forward / walk_backward / turn_left /
\* turn_right: the Thread object exists and has not been started
NewTask(kind, dir, h, len, speed) ==
    [kind |-> kind, dir |-> dir, h |-> h, len |-> len, speed |-> speed,
     pc |-> "new", phase |-> "lift", i |-> 1, k |-> 1, passes |-> 0,
     cur |-> NoAngles, todo |-> << >>]

\* a thread that has returned ("done") or died of an exception ("crashed")
Ended(pc) ==
    [kind |-> "walk", dir |-> "forward", h |-> 0, len |-> 0, speed |-> 0,
     pc |-> pc, phase |-> "lift", i |-> 1, k |-> 1, passes |-> 0,
     cur |-> NoAngles, todo |-> << >>]

TaskIds == 1 .. Len(tasks)

\* the thread has been started and has not ended
Alive(t) == tasks[t].pc \notin {"new", "done", "crashed"}

\* the leg a walk or turn thread is stepping
TaskLeg(r) ==
    IF r.kind = "walk" THEN WalkPair(r.i)[r.k] ELSE LegsOrder(r.dir)[r.i]

\* self.moving = True, and the Thread object built
StartGait(kind, dir, h, len, speed, maxTasks) ==
    /\ Len(tasks) < maxTasks
    /\ moving' = TRUE
    /\ tasks' = Append(tasks, NewTask(kind, dir, h, len, speed))
    /\ stopCalls' = 0
    /\ UNCHANGED <<current_positions, movement_lock, caller, write_from, view>>
    /\ UNCHANGED <<navVars, ctlVars>>

walk_forward(h, len, speed, maxTasks) ==
    StartGait("walk", "forward", h, len, speed, maxTasks)

walk_backward(h, len, speed, maxTasks) ==
    StartGait("walk", "backward", h, len, speed, maxTasks)

turn_left(h, angle, speed, maxTasks) ==
    StartGait("turn", "left", h, angle, speed, maxTasks)

turn_right(h, angle, speed, maxTasks) ==
    StartGait("turn", "right", h, angle, speed, maxTasks)

\* threading.Thread(...).start(), the second statement of the four calls
ThreadStart(t) ==
    /\ tasks[t].pc = "new"
    /\ tasks' = [tasks EXCEPT ![t].pc = "start"]
    /\ UNCHANGED <<current_positions, moving, movement_lock, caller, write_from, view, stopCalls>>
    /\ UNCHANGED <<navVars, ctlVars>>

\* a stop_movement that also puts the legs in the standing pose, writing the
\* table itself
StopAndStand ==
    /\ moving' = FALSE
    /\ stopCalls' = IF stopCalls < MaxStops THEN stopCalls + 1 ELSE stopCalls
    /\ current_positions' =
          [leg \in Legs |-> IF IsFront(leg) THEN Angles(Deg(90), Deg(45), Deg(135))
                            ELSE Angles(Deg(90), Deg(135), Deg(45))]
    /\ UNCHANGED <<movement_lock, tasks, caller, write_from, view>>
    /\ UNCHANGED <<navVars, ctlVars>>

\* a stop_movement that leaves the flag set
FlagLeftSet == TRUE

\* the value stop_movement stores in self.moving
StoppedFlag == FALSE

\* stop_movement(): self.moving = False
stop_movement ==
    /\ moving' = StoppedFlag
    /\ stopCalls' = IF stopCalls < MaxStops THEN stopCalls + 1 ELSE stopCalls
    /\ UNCHANGED <<current_positions, movement_lock, tasks, caller, write_from, view>>
    /\ UNCHANGED <<navVars, ctlVars>>

\* step_duration = 0.5 / speed: a speed of 0 raises ZeroDivisionError
TaskInit(t) ==
    /\ tasks[t].pc = "start"
    /\ tasks' = [tasks EXCEPT ![t] =
           IF tasks[t].speed = 0 THEN Ended("crashed") ELSE [@ EXCEPT !.pc = "while"]]
    /\ UNCHANGED <<current_positions, moving, movement_lock, caller, write_from, view, stopCalls>>
    /\ UNCHANGED <<navVars, ctlVars>>

\* a walk thread that steps its next pair whatever the flag says
WalkUnchecked(r, m) == [r EXCEPT !.pc = "read", !.phase = "lift", !.k = 1]

\* what a walk thread does on reading self.moving as m: `while self.moving`
\* before the first pair (i = 1), `if not self.moving: break` before the
\* second (i = 2)
WalkChecked(r, m) ==
    IF m THEN [r EXCEPT !.pc = "read", !.phase = "lift", !.k = 1]
    ELSE Ended("done")

WalkCheck(t) ==
    /\ tasks[t].kind = "walk"
    /\ tasks[t].pc = "while"
    /\ (moving /\ tasks[t].i = 1) => tasks[t].passes < MaxPasses
    /\ tasks' = [tasks EXCEPT ![t] = WalkChecked(@, moving)]
    /\ UNCHANGED <<current_positions, moving, movement_lock, caller, write_from, view, stopCalls>>
    /\ UNCHANGED <<navVars, ctlVars>>

\* the angles _step_cycle hands to set_leg_position in a phase, from the copy
\* cur of the leg's stored angles
StepAngles(r, leg, cur) ==
    CASE r.phase = "lift"  -> LiftAngles(leg, cur, r.h)
      [] r.phase = "swing" -> SwingAngles(leg, cur, r.dir, r.len)
      [] OTHER             -> LowerAngles(leg, cur)

\* _step_cycle: current = self.current_positions[leg].copy() and the change
\* of the phase
WalkRead(t) ==
    /\ tasks[t].kind = "walk"
    /\ tasks[t].pc = "read"
    /\ LET leg == TaskLeg(tasks[t])
           new == StepAngles(tasks[t], leg, current_positions[leg])
       IN  tasks' = [tasks EXCEPT ![t].pc = "write", ![t].todo = Entries(new)]
    /\ UNCHANGED <<current_positions, moving, movement_lock, caller, write_from, view, stopCalls>>
    /\ UNCHANGED <<navVars, ctlVars>>

\* `while self.moving` of _turn_gait
TurnWhiled(r, m) ==
    IF m THEN [r EXCEPT !.pc = "for", !.i = 1] ELSE Ended("done")

TurnWhile(t) ==
    /\ tasks[t].kind = "turn"
    /\ tasks[t].pc = "while"
    /\ moving => tasks[t].passes < MaxPasses
    /\ tasks' = [tasks EXCEPT ![t] = TurnWhiled(@, moving)]
    /\ UNCHANGED <<current_positions, moving, movement_lock, caller, write_from, view, stopCalls>>
    /\ UNCHANGED <<navVars, ctlVars>>

\* `if not self.moving: break` of _turn_gait's for loop
TurnFored(r, m) ==
    IF m THEN [r EXCEPT !.pc = "read"] ELSE [r EXCEPT !.pc = "while", !.i = 1]

TurnFor(t) ==
    /\ tasks[t].kind = "turn"
    /\ tasks[t].pc = "for"
    /\ tasks' = [tasks EXCEPT ![t] = TurnFored(@, moving)]
    /\ UNCHANGED <<current_positions, moving, movement_lock, caller, write_from, view, stopCalls>>
    /\ UNCHANGED <<navVars, ctlVars>>

\* _turn_step: current = self.current_positions[leg].copy(), read once for
\* the three phases, and "Lift leg"
TurnRead(t) ==
    /\ tasks[t].kind = "turn"
    /\ tasks[t].pc = "read"
    /\ LET leg == TaskLeg(tasks[t])
           new == LiftAngles(leg, current_positions[leg], tasks[t].h)
       IN  tasks' = [tasks EXCEPT ![t].pc = "write", ![t].phase = "lift",
                                  ![t].cur = new, ![t].todo = Entries(new)]
    /\ UNCHANGED <<current_positions, moving, movement_lock, caller, write_from, view, stopCalls>>
    /\ UNCHANGED <<navVars, ctlVars>>

\* a walk thread after a set_leg_position call has returned: the next leg of
\* the pair, or time.sleep (ValueError for a negative duration) and the next
\* phase, or back to the check of self.moving with the other pair
WalkAfterWrite(r) ==
    IF r.k = 1 THEN [r EXCEPT !.k = 2, !.pc = "read", !.todo = << >>]
    ELSE IF r.speed < 0 THEN Ended("crashed")
    ELSE CASE r.phase = "lift"  ->
                [r EXCEPT !.phase = "swing", !.k = 1, !.pc = "read", !.todo = << >>]
           [] r.phase = "swing" ->
                [r EXCEPT !.phase = "lower", !.k = 1, !.pc = "read", !.todo = << >>]
           [] OTHER ->
                [r EXCEPT !.phase = "lift", !.k = 1, !.i = 3 - r.i,
                          !.passes = IF r.i = 2 THEN r.passes + 1 ELSE r.passes,
                          !.pc = "while", !.todo = << >>]

\* a turn thread after a set_leg_position call has returned: time.sleep, then
\* the next phase computed from the same copy, or the next leg of the order
TurnAfterWrite(r) ==
    IF r.speed < 0 THEN Ended("crashed")
    ELSE CASE r.phase = "lift" ->
                LET c == RotateAngles(r.cur, r.dir, r.len)
                IN  [r EXCEPT !.phase = "rotate", !.cur = c, !.todo = Entries(c)]
           [] r.phase = "rotate" ->
                LET c == LowerAngles(TaskLeg(r), r.cur)
                IN  [r EXCEPT !.phase = "lower", !.cur = c, !.todo = Entries(c)]
           [] OTHER ->
                [r EXCEPT !.phase = "lift", !.cur = NoAngles, !.todo = << >>,
                          !.i = IF r.i = 4 THEN 1 ELSE r.i + 1,
                          !.passes = IF r.i = 4 THEN r.passes + 1 ELSE r.passes,
                          !.pc = IF r.i = 4 THEN "while" ELSE "for"]

AfterWrite(r) ==
    IF r.kind = "walk" THEN WalkAfterWrite(r) ELSE TurnAfterWrite(r)

\* a gait thread inside set_leg_position
TaskWrite(t) ==
    /\ tasks[t].pc = "write"
    /\ \E rest \in {Tail(tasks[t].todo)} :
          /\ SetLegStep(t, TaskLeg(tasks[t]), tasks[t].todo, rest)
          /\ tasks' = [tasks EXCEPT ![t] =
                 IF rest = << >> THEN AfterWrite(@) ELSE [@ EXCEPT !.todo = rest]]
    /\ UNCHANGED <<moving, caller, view, stopCalls>>
    /\ UNCHANGED <<navVars, ctlVars>>

\* a gait thread's whole set_leg_position call as one step: the lock taken,
\* the three joints written, the lock released
TaskSetLeg(t) ==
    /\ tasks[t].pc = "write"
    /\ movement_lock = Free
    /\ current_positions' = WriteAll(current_positions, TaskLeg(tasks[t]), tasks[t].todo)
    /\ tasks' = [tasks EXCEPT ![t] = AfterWrite(@)]
    /\ UNCHANGED <<moving, movement_lock, caller, write_from, view, stopCalls>>
    /\ UNCHANGED <<navVars, ctlVars>>

\* the steps of a gait thread outside set_leg_position
TaskControl(t) ==
    \/ TaskInit(t)
    \/ WalkCheck(t)
    \/ WalkRead(t)
    \/ TurnWhile(t)
    \/ TurnFor(t)
    \/ TurnRead(t)

\* a step of gait thread t, a joint at a time inside set_leg_position
TaskStep(t) == TaskControl(t) \/ TaskWrite(t)

\* a step of gait thread t, set_leg_position taken as a whole: the writes of
\* one call are not interleaved with the steps of other threads
GaitStep(t) == TaskControl(t) \/ TaskSetLeg(t)

----------------------------------------------------------------------------
(* LegController: the calls of a client thread *)

\* the client thread between two calls; arg is the leg its last call was
\* given and ret what that call returned ("none" while it runs), n the calls
\* made and ns the smooth_move_leg calls made
IdleCaller(arg, ret, n, ns) ==
    [op |-> "idle", leg |-> "none", todo |-> << >>, start |-> NoAngles,
     target |-> NoAngles, steps |-> 0, step |-> 0, li |-> 0,
     arg |-> arg, ret |-> ret, n |-> n, ns |-> ns]

\* a set_leg_position without the leg check
SetLegUnchecked(c, leg, entries) ==
    [IdleCaller(leg, "none", c.n + 1, c.ns) EXCEPT
        !.op = "set", !.leg = leg, !.todo = entries]

\* set_leg_position(leg, angles): False for a leg that is not in LEG_SERVOS
SetLegCalled(c, leg, entries) ==
    IF leg \notin Legs
    THEN IdleCaller(leg, "False", c.n + 1, c.ns)
    ELSE [IdleCaller(leg, "none", c.n + 1, c.ns) EXCEPT
             !.op = "set", !.leg = leg, !.todo = entries]

CallSetLeg(leg, entries) ==
    /\ caller.op = "idle"
    /\ caller.n < MaxCalls
    /\ caller' = SetLegCalled(caller, leg, entries)
    /\ UNCHANGED <<current_positions, moving, movement_lock, tasks, write_from, view, stopCalls>>
    /\ UNCHANGED <<navVars, ctlVars>>

\* steps = int(duration * 20), duration in hundredths of a second
StepsOf(duration) == (duration * 20) \div 100

\* current_angle = start_angle + (target_angle - start_angle) * progress,
\* progress = step / steps
Interp(start, target, step, steps) ==
    Angles(start.hip + ((target.hip - start.hip) * step) \div steps,
           start.knee + ((target.knee - start.knee) * step) \div steps,
           start.ankle + ((target.ankle - start.ankle) * step) \div steps)

\* smooth_move_leg(leg, target_angles, duration) up to its first call of
\* set_leg_position: False for an unknown leg; the copy of the start angles;
\* step / steps raises ZeroDivisionError when steps is 0
SmoothCalled(c, leg, target, duration, start) ==
    IF leg \notin Legs
    THEN IdleCaller(leg, "False", c.n + 1, c.ns + 1)
    ELSE IF StepsOf(duration) = 0
    THEN IdleCaller(leg, "ZeroDivisionError", c.n + 1, c.ns + 1)
    ELSE [IdleCaller(leg, "none", c.n + 1, c.ns + 1) EXCEPT
             !.op = "smooth", !.leg = leg, !.start = start, !.target = target,
             !.steps = StepsOf(duration), !.step = 0,
             !.todo = Entries(Interp(start, target, 0, StepsOf(duration)))]

CallSmooth(leg, target, duration) ==
    /\ caller.op = "idle"
    /\ caller.n < MaxCalls
    /\ caller.ns < MaxSmooth
    /\ caller' = SmoothCalled(caller, leg, target, duration,
                              IF leg \in Legs THEN current_positions[leg] ELSE NoAngles)
    /\ UNCHANGED <<current_positions, moving, movement_lock, tasks, write_from, view, stopCalls>>
    /\ UNCHANGED <<navVars, ctlVars>>

\* move_to_default_position: default_angles
DefaultAngles(leg) ==
    IF IsFront(leg) THEN Angles(Deg(90), Deg(45), Deg(135))
    ELSE Angles(Deg(90), Deg(135), Deg(45))

\* the order of default_angles.items()
DefaultOrder == <<"front_left", "front_right", "rear_left", "rear_right">>

\* move_to_default_position() up to its first call of set_leg_position
CallDefault ==
    /\ caller.op = "idle"
    /\ caller.n < MaxCalls
    /\ caller' = [IdleCaller("all", "none", caller.n + 1, caller.ns) EXCEPT
                     !.op = "default", !.li = 1, !.leg = DefaultOrder[1],
                     !.todo = Entries(DefaultAngles(DefaultOrder[1]))]
    /\ UNCHANGED <<current_positions, moving, movement_lock, tasks, write_from, view, stopCalls>>
    /\ UNCHANGED <<navVars, ctlVars>>

\* the client thread after a set_leg_position call has returned
CallerAfterWrite(c) ==
    CASE c.op = "set" -> IdleCaller(c.arg, "True", c.n, c.ns)
      [] c.op = "smooth" ->
            IF c.step < c.steps
            THEN [c EXCEPT !.step = c.step + 1,
                           !.todo = Entries(Interp(c.start, c.target, c.step + 1, c.steps))]
            ELSE IdleCaller(c.arg, "True", c.n, c.ns)
      [] OTHER ->
            IF c.li < 4
            THEN [c EXCEPT !.li = c.li + 1, !.leg = DefaultOrder[c.li + 1],
                           !.todo = Entries(DefaultAngles(DefaultOrder[c.li + 1]))]
            ELSE IdleCaller(c.arg, "None", c.n, c.ns)

\* the client thread inside set_leg_position
CallerWrite ==
    /\ caller.op # "idle"
    /\ \E rest \in {IF caller.todo = << >> THEN << >> ELSE Tail(caller.todo)} :
          /\ SetLegStep(CallerId, caller.leg, caller.todo, rest)
          /\ caller' = IF rest = << >> THEN CallerAfterWrite(caller)
                       ELSE [caller EXCEPT !.todo = rest]
    /\ UNCHANGED <<moving, tasks, view, stopCalls>>
    /\ UNCHANGED <<navVars, ctlVars>>

----------------------------------------------------------------------------
(* LegController: get_current_positions *)

\* the leg and the writes left of the set_leg_position that holds the lock
HolderLeg ==
    IF movement_lock = CallerId THEN caller.leg ELSE TaskLeg(tasks[movement_lock])

HolderTodo ==
    IF movement_lock = CallerId THEN caller.todo ELSE tasks[movement_lock].todo

\* leg's stored angles are neither those before the set_leg_position in
\* progress nor those after it
PartlyWritten(leg) ==
    /\ movement_lock # Free
    /\ HolderLeg = leg
    /\ current_positions[leg] # write_from
    /\ current_positions[leg] # WriteAll(current_positions, leg, HolderTodo)[leg]

\* get_current_positions(): self.current_positions.copy(), taken without the
\* lock; the reader (get_status) then looks at leg
get_current_positions(leg) ==
    /\ view' = [leg |-> leg, angles |-> current_positions[leg],
                torn |-> PartlyWritten(leg)]
    /\ UNCHANGED <<current_positions, moving, movement_lock, tasks, caller, write_from, stopCalls>>
    /\ UNCHANGED <<navVars, ctlVars>>

NoView == [leg |-> "none", angles |-> NoAngles, torn |-> FALSE]

----------------------------------------------------------------------------
(* Initial state: LegController.__init__ *)

LegInit ==
    /\ current_positions = [l \in Legs |-> Angles(Deg(90), Deg(90), Deg(90))]
    /\ moving = FALSE
    /\ movement_lock = Free
    /\ tasks = << >>
    /\ caller = IdleCaller("none", "none", 0, 0)
    /\ write_from = NoAngles
    /\ view = NoView
    /\ stopCalls = 0

----------------------------------------------------------------------------
(* NavigationAI: geodesy.  Coordinates are integers in micro-degrees, taken
   near latitude 0 and within a thousand micro-degrees of each other, where
   the haversine distance is the plane distance to well under a millimetre;
   distances are in millimetres, bearings and headings in tenths of a degree *)

\* earth_radius = 6371000
EarthRadius == 6371000

\* millimetres on the sphere per ten micro-degrees: R * pi / 180 * 1e-5 * 1e3
MmPerTenMicro == ((EarthRadius \div 1000) * 31416 + 90000) \div 180000

RECURSIVE SqrtSearch(_, _, _)
SqrtSearch(n, lo, hi) ==
    IF lo = hi THEN lo
    ELSE LET mid == (lo + hi + 1) \div 2
         IN  IF mid * mid <= n THEN SqrtSearch(n, mid, hi) ELSE SqrtSearch(n, lo, mid - 1)

\* the integer square root
ISqrt(n) == SqrtSearch(n, 0, 46340)

Abs(x) == IF x < 0 THEN -x ELSE x

\* calculate_distance: the haversine formula, in millimetres
calculate_distance(lat1, lon1, lat2, lon2) ==
    LET dlat == lat2 - lat1
        dlon == lon2 - lon1
    IN  (ISqrt(100 * (dlat * dlat + dlon * dlon)) * MmPerTenMicro) \div 100

\* atan(a / b) for 0 <= a <= b, b > 0, in tenths of a degree: exact at 0 and
\* at 45 degrees, within 0.3 degree between
AtanTenths(a, b) == (450 * a * b + 156 * a * (b - a)) \div (b * b)

\* math.degrees(math.atan2(y, x)), in tenths of a degree, in (-1800, 1800]
Atan2Tenths(y, x) ==
    IF x = 0 /\ y = 0 THEN 0
    ELSE LET ay == Abs(y)
             ax == Abs(x)
             acute == IF ay <= ax THEN AtanTenths(ay, ax) ELSE 900 - AtanTenths(ax, ay)
             upper == IF x >= 0 THEN acute ELSE 1800 - acute
         IN  IF y < 0 THEN -upper ELSE upper

\* a bearing left as atan2 returns it
BearingUnnormalised(lat1, lon1, lat2, lon2) == Atan2Tenths(lon2 - lon1, lat2 - lat1)

\* calculate_bearing: atan2(y, x) of the two-point bearing formula,
\* normalised by (bearing_deg + 360) % 360
calculate_bearing(lat1, lon1, lat2, lon2) ==
    LET y == lon2 - lon1
        x == lat2 - lat1
    IN  (Atan2Tenths(y, x) + 3600) % 3600

----------------------------------------------------------------------------
(* NavigationAI: the goal and the movement decision *)

\* current_goal = None
NoGoal == [set |-> FALSE, latitude |-> 0, longitude |-> 0]

\* the dict set_goal stores (its timestamp left out)
Goal(lat, lon) == [set |-> TRUE, latitude |-> lat, longitude |-> lon]

\* a command dict; a key the dict does not hold reads as "" / FALSE / -1
Command(command, reason, goal_achieved, speed, angle, distance_to_goal) ==
    [command |-> command, reason |-> reason, goal_achieved |-> goal_achieved,
     speed |-> speed, angle |-> angle, distance_to_goal |-> distance_to_goal]

NoCommand == Command("none", "", FALSE, -1, -1, -1)

\* obs.get('distance_estimate', default), in decimetres
DistanceEstimate(obs, default) ==
    IF "distance_estimate" \in DOMAIN obs THEN obs.distance_estimate ELSE default

\* [obs for obs in vision_obstacles if obs.get('position') == position]
RECURSIVE AtPosition(_, _)
AtPosition(obstacles, position) ==
    IF obstacles = << >> THEN << >>
    ELSE LET rest == AtPosition(Tail(obstacles), position)
         IN  IF "position" \in DOMAIN Head(obstacles) /\ Head(obstacles).position = position
             THEN <<Head(obstacles)>> \o rest
             ELSE rest

\* sum(1/max(obs.get('distance_estimate', 1), 0.5) for obs in side), times 60;
\* the distances used divide 600 decimetres
RECURSIVE InverseSum(_)
InverseSum(side) ==
    IF side = << >> THEN 0
    ELSE 600 \div Max(DistanceEstimate(Head(side), 10), 5) + InverseSum(Tail(side))

\* left_score / right_score, times 60
SideScore(side) == 60 * Len(side) + InverseSum(side)

\* an override that turns left on a tie of the scores
ObstaclesTieLeft(vision_obstacles) ==
    LET center_obstacles == AtPosition(vision_obstacles, "center")
        close_obstacles == { n \in 1 .. Len(center_obstacles) :
                               DistanceEstimate(center_obstacles[n], 100) < 20 }
        left_score == SideScore(AtPosition(vision_obstacles, "left"))
        right_score == SideScore(AtPosition(vision_obstacles, "right"))
    IN  IF center_obstacles # << >> /\ close_obstacles # {}
        THEN IF left_score <= right_score
             THEN Command("turn_left", "Avoiding obstacle - turn left", FALSE, -1, 300, -1)
             ELSE Command("turn_right", "Avoiding obstacle - turn right", FALSE, -1, 300, -1)
        ELSE NoCommand

\* an override that fires for a center obstacle at any distance
ObstaclesAnyCenter(vision_obstacles) ==
    LET center_obstacles == AtPosition(vision_obstacles, "center")
        left_score == SideScore(AtPosition(vision_obstacles, "left"))
        right_score == SideScore(AtPosition(vision_obstacles, "right"))
    IN  IF center_obstacles # << >>
        THEN IF left_score < right_score
             THEN Command("turn_left", "Avoiding obstacle - turn left", FALSE, -1, 300, -1)
             ELSE Command("turn_right", "Avoiding obstacle - turn right", FALSE, -1, 300, -1)
        ELSE NoCommand

\* analyze_immediate_obstacles: NoCommand stands for None
analyze_immediate_obstacles(vision_obstacles) ==
    LET center_obstacles == AtPosition(vision_obstacles, "center")
        close_obstacles == { n \in 1 .. Len(center_obstacles) :
                               DistanceEstimate(center_obstacles[n], 100) < 20 }
        left_score == SideScore(AtPosition(vision_obstacles, "left"))
        right_score == SideScore(AtPosition(vision_obstacles, "right"))
    IN  IF center_obstacles # << >> /\ close_obstacles # {}
        THEN IF left_score < right_score
             THEN Command("turn_left", "Avoiding obstacle - turn left", FALSE, -1, 300, -1)
             ELSE Command("turn_right", "Avoiding obstacle - turn right", FALSE, -1, 300, -1)
        ELSE NoCommand

\* relative_bearing = (bearing_to_goal - current_heading + 360) % 360
RelativeBearing(bearing_to_goal, current_heading) ==
    (bearing_to_goal - current_heading + 3600) % 3600

\* a steering that turns right up to and including 180 degrees
SteeringRightAt180(relative_bearing, distance_to_goal) ==
    IF Abs(relative_bearing) < 150 \/ Abs(relative_bearing - 3600) < 150
    THEN Command("forward", "", FALSE, Min(10000, distance_to_goal), -1, distance_to_goal)
    ELSE IF 150 <= relative_bearing /\ relative_bearing <= 1800
    THEN Command("turn_right", "", FALSE, -1, Min(relative_bearing, 450), distance_to_goal)
    ELSE Command("turn_left", "", FALSE, -1, Min(3600 - relative_bearing, 450), distance_to_goal)

\* the last if/elif/else of get_next_movement_command; speed in units of
\* 0.0001: min(1.0, distance_to_goal / 10)
Steering(relative_bearing, distance_to_goal) ==
    IF Abs(relative_bearing) < 150 \/ Abs(relative_bearing - 3600) < 150
    THEN Command("forward", "", FALSE, Min(10000, distance_to_goal), -1, distance_to_goal)
    ELSE IF 150 <= relative_bearing /\ relative_bearing < 1800
    THEN Command("turn_right", "", FALSE, -1, Min(relative_bearing, 450), distance_to_goal)
    ELSE Command("turn_left", "", FALSE, -1, Min(3600 - relative_bearing, 450), distance_to_goal)

\* the distance below which the goal counts as reached: 1.0 m
ArrivalDistance == 1000

\* a decision that looks at the obstacles before the arrival check
ObstaclesBeforeArrival(goal, current_lat, current_lon, current_heading, vision_obstacles) ==
    IF ~goal.set
    THEN Command("stop", "No goal set", FALSE, -1, -1, -1)
    ELSE LET distance_to_goal ==
                 calculate_distance(current_lat, current_lon, goal.latitude, goal.longitude)
             bearing_to_goal ==
                 calculate_bearing(current_lat, current_lon, goal.latitude, goal.longitude)
             obstacle_response ==
                 IF vision_obstacles # << >>
                 THEN analyze_immediate_obstacles(vision_obstacles)
                 ELSE NoCommand
         IN  IF obstacle_response # NoCommand
             THEN obstacle_response
             ELSE IF distance_to_goal < ArrivalDistance
             THEN Command("stop", "Goal reached", TRUE, -1, -1, -1)
             ELSE Steering(RelativeBearing(bearing_to_goal, current_heading), distance_to_goal)

\* a decision that makes the arrival check before the goal check
ArrivalBeforeGoal(goal, current_lat, current_lon, current_heading, vision_obstacles) ==
    LET distance_to_goal ==
            calculate_distance(current_lat, current_lon, goal.latitude, goal.longitude)
    IN  IF distance_to_goal < ArrivalDistance
        THEN Command("stop", "Goal reached", TRUE, -1, -1, -1)
        ELSE Command("stop", "No goal set", FALSE, -1, -1, -1)

\* get_next_movement_command with self.current_goal = goal
get_next_movement_command(goal, current_lat, current_lon, current_heading, vision_obstacles) ==
    IF ~goal.set
    THEN Command("stop", "No goal set", FALSE, -1, -1, -1)
    ELSE LET distance_to_goal ==
                 calculate_distance(current_lat, current_lon, goal.latitude, goal.longitude)
             bearing_to_goal ==
                 calculate_bearing(current_lat, current_lon, goal.latitude, goal.longitude)
             relative_bearing == RelativeBearing(bearing_to_goal, current_heading)
             obstacle_response ==
                 IF vision_obstacles # << >>
                 THEN analyze_immediate_obstacles(vision_obstacles)
                 ELSE NoCommand
         IN  IF distance_to_goal < ArrivalDistance
             THEN Command("stop", "Goal reached", TRUE, -1, -1, -1)
             ELSE IF obstacle_response # NoCommand
             THEN obstacle_response
             ELSE Steering(relative_bearing, distance_to_goal)

\* set_goal(target_lat, target_lon)
set_goal(target_lat, target_lon) ==
    /\ current_goal' = Goal(target_lat, target_lon)
    /\ UNCHANGED <<nav_in, nav_command, mapVars>>
    /\ UNCHANGED <<legVars, ctlVars>>

\* no call of get_next_movement_command made yet
NoInput ==
    [goal |-> NoGoal, latitude |-> 0, longitude |-> 0, heading |-> 0,
     obstacles |-> << >>, called |-> FALSE]

\* a call of get_next_movement_command, its arguments and its result kept
Decide(lat, lon, heading, obstacles) ==
    /\ nav_in' = [goal |-> current_goal, latitude |-> lat, longitude |-> lon,
                  heading |-> heading, obstacles |-> obstacles, called |-> TRUE]
    /\ nav_command' = get_next_movement_command(current_goal, lat, lon, heading, obstacles)
    /\ UNCHANGED <<current_goal, mapVars>>
    /\ UNCHANGED <<legVars, ctlVars>>

----------------------------------------------------------------------------
(* NavigationAI: the path planner.  Waypoints are in whole micro-degrees;
   at the latitudes used cos(radians(lat)) is 1 to nine decimals *)

\* a / b rounded to the nearest integer, b > 0
RoundDiv(a, b) ==
    IF a >= 0 THEN (2 * a + b) \div (2 * b) ELSE -((2 * (-a) + b) \div (2 * b))

\* self.safety_distance = 0.5, in millimetres
SafetyDistance == 500

\* the distance below which the path is direct: 2.0 m
DirectDistance == 2000

\* metres between waypoints: int(total_distance / 10)
WaypointSpacing == 10000

\* search_radius = 2.0, in millimetres
SearchRadius == 2000

\* metres per degree used for the probe offsets
MetresPerDegree == 111000

\* the number of samples of np.linspace(0, 2 * np.pi, 8)
ProbeCount == 8

\* rec.get(field, default)
Get(rec, field, default) == IF field \in DOMAIN rec THEN rec[field] ELSE default

\* an obstacle dict of the planner: micro-degrees and millimetres
MapObstacle(lat, lon, radius) == [latitude |-> lat, longitude |-> lon, radius |-> radius]

\* a waypoint dict; warning = FALSE stands for a dict without the key
Waypoint(lat, lon, id, warning) ==
    [latitude |-> lat, longitude |-> lon, waypoint_id |-> id, warning |-> warning]

\* point_in_obstacle(point, obstacle)
point_in_obstacle(point, obstacle) ==
    LET obs_lat == Get(obstacle, "latitude", 0)
        obs_lon == Get(obstacle, "longitude", 0)
        obs_radius == Get(obstacle, "radius", 1000)
        distance == calculate_distance(point.latitude, point.longitude, obs_lat, obs_lon)
    IN  distance < obs_radius + SafetyDistance

\* any(point_in_obstacle(waypoint, obs) for obs in obstacles)
Conflicts(waypoint, obstacles) ==
    \E n \in 1 .. Len(obstacles) : point_in_obstacle(waypoint, obstacles[n])

\* np.linspace(0, 2 * np.pi, 8)[k - 1], in tenths of a degree: the endpoint
\* 2 pi is the last sample
ProbeAngle(k) == ((k - 1) * 3600) \div (ProbeCount - 1)

\* 1000 * cos and 1000 * sin of the sampled angles
CosMilli(angle) ==
    CASE angle = 0 -> 1000   [] angle = 514 -> 623   [] angle = 1028 -> -223
      [] angle = 1542 -> -901 [] angle = 2057 -> -901 [] angle = 2571 -> -223
      [] angle = 3085 -> 623  [] angle = 3600 -> 1000

SinMilli(angle) ==
    CASE angle = 0 -> 0      [] angle = 514 -> 782   [] angle = 1028 -> 975
      [] angle = 1542 -> 434  [] angle = 2057 -> -434 [] angle = 2571 -> -975
      [] angle = 3085 -> -782 [] angle = 3600 -> 0

\* the k-th test_waypoint of find_safe_waypoint
Probe(original_waypoint, k) ==
    LET lat_offset == RoundDiv(SearchRadius * CosMilli(ProbeAngle(k)), MetresPerDegree)
        lon_offset == RoundDiv(SearchRadius * SinMilli(ProbeAngle(k)), MetresPerDegree)
    IN  Waypoint(original_waypoint.latitude + lat_offset,
                 original_waypoint.longitude + lon_offset,
                 original_waypoint.waypoint_id, FALSE)

\* the probes that conflict with no obstacle
SafeProbes(original_waypoint, obstacles) ==
    { k \in 1 .. ProbeCount : ~Conflicts(Probe(original_waypoint, k), obstacles) }

\* a search that returns its first probe without testing it
FirstProbeUntested(original_waypoint, obstacles) == Probe(original_waypoint, 1)

\* find_safe_waypoint(original_waypoint, obstacles)
find_safe_waypoint(original_waypoint, obstacles) ==
    LET safe == SafeProbes(original_waypoint, obstacles)
    IN  IF safe # {}
        THEN Probe(original_waypoint, CHOOSE k \in safe : \A j \in safe : k <= j)
        ELSE [original_waypoint EXCEPT !.warning = TRUE]

\* adjust_waypoints_for_obstacles(waypoints, obstacles)
adjust_waypoints_for_obstacles(waypoints, obstacles) ==
    [ i \in 1 .. Len(waypoints) |->
        IF Conflicts(waypoints[i], obstacles)
        THEN find_safe_waypoint(waypoints[i], obstacles)
        ELSE waypoints[i] ]

\* waypoints interpolated at progress (i - 1) / num_waypoints
WaypointsFromStart(start_lat, start_lon, end_lat, end_lon, obstacles) ==
    LET total_distance == calculate_distance(start_lat, start_lon, end_lat, end_lon)
        num_waypoints == Max(2, total_distance \div WaypointSpacing)
    IN  [ i \in 1 .. num_waypoints |->
            Waypoint(start_lat + RoundDiv((end_lat - start_lat) * (i - 1), num_waypoints),
                     start_lon + RoundDiv((end_lon - start_lon) * (i - 1), num_waypoints),
                     i, FALSE) ]

\* generate_waypoints(start_lat, start_lon, end_lat, end_lon, obstacles);
\* obstacles = << >> stands for None or an empty list
generate_waypoints(start_lat, start_lon, end_lat, end_lon, obstacles) ==
    LET total_distance == calculate_distance(start_lat, start_lon, end_lat, end_lon)
        num_waypoints == Max(2, total_distance \div WaypointSpacing)
        waypoints ==
            [ i \in 1 .. num_waypoints |->
                Waypoint(start_lat + RoundDiv((end_lat - start_lat) * i, num_waypoints),
                         start_lon + RoundDiv((end_lon - start_lon) * i, num_waypoints),
                         i, FALSE) ]
    IN  IF obstacles # << >>
        THEN adjust_waypoints_for_obstacles(waypoints, obstacles)
        ELSE waypoints

\* a path dict; estimated_time = distance / 0.5, in milliseconds
Path(type, distance, bearing, waypoints) ==
    [type |-> type, distance |-> distance, bearing |-> bearing,
     waypoints |-> waypoints, estimated_time |-> 2 * distance]

\* calculate_path_to_goal returned None, or was not called
NoPath == Path("none", -1, -1, << >>)

\* calculate_path_to_goal(current_lat, current_lon, obstacles) with
\* self.current_goal = goal
calculate_path_to_goal(goal, current_lat, current_lon, obstacles) ==
    IF ~goal.set
    THEN NoPath
    ELSE LET distance ==
                 calculate_distance(current_lat, current_lon, goal.latitude, goal.longitude)
             bearing ==
                 calculate_bearing(current_lat, current_lon, goal.latitude, goal.longitude)
         IN  IF distance < DirectDistance
             THEN Path("direct", distance, bearing, <<goal>>)
             ELSE Path("waypoint", distance, bearing,
                       generate_waypoints(current_lat, current_lon,
                                          goal.latitude, goal.longitude, obstacles))

\* a call of calculate_path_to_goal: its arguments and its result; request
\* tells the call navigate_to makes from a call made directly
PlanCall(goal, lat, lon, obstacles) ==
    [called |-> TRUE, request |-> FALSE, goal |-> goal, latitude |-> lat, longitude |-> lon,
     obstacles |-> obstacles, path |-> calculate_path_to_goal(goal, lat, lon, obstacles)]

\* no call of calculate_path_to_goal made yet
NoPlan ==
    [called |-> FALSE, request |-> FALSE, goal |-> NoGoal, latitude |-> 0, longitude |-> 0,
     obstacles |-> << >>, path |-> NoPath]

\* a planner that drops the goal once it has planned a path to it
PlanPathDroppingGoal(lat, lon, obstacles) ==
    /\ plan' = PlanCall(current_goal, lat, lon, obstacles)
    /\ current_goal' = NoGoal
    /\ UNCHANGED <<nav_in, nav_command, obstacle_map, now, swept>>
    /\ UNCHANGED <<legVars, ctlVars>>

\* a call of calculate_path_to_goal, its arguments and its result kept
PlanPath(lat, lon, obstacles) ==
    /\ plan' = PlanCall(current_goal, lat, lon, obstacles)
    /\ UNCHANGED <<current_goal, nav_in, nav_command, obstacle_map, now, swept>>
    /\ UNCHANGED <<legVars, ctlVars>>

----------------------------------------------------------------------------
(* NavigationAI: the obstacle map.  add_obstacle_to_map takes coordinates in
   tenths of a micro-degree, none of them halfway between two micro-degrees;
   the clock counts seconds *)

\* the longest time the clock runs
MaxTime == 2

\* f"{x:.6f}": the sign of x, and its magnitude rounded to 6 decimals
Format6(x) == <<x < 0, RoundDiv(Abs(x), 10)>>

\* obstacle_id = f"{lat:.6f}_{lon:.6f}"
ObstacleId(lat, lon) == <<"coord", Format6(lat), Format6(lon)>>

\* f"vision_{time.time()}"
VisionId(time) == <<"vision", time>>

\* obstacle_map with obstacle_map[key] = entry
Store(map, key, entry) ==
    [ k \in DOMAIN map \cup {key} |-> IF k = key THEN entry ELSE map[k] ]

\* add_obstacle_to_map(lat, lon, radius, obstacle_type)
add_obstacle_to_map(lat, lon, radius, obstacle_type) ==
    /\ obstacle_map' = Store(obstacle_map, ObstacleId(lat, lon),
                             [latitude |-> lat, longitude |-> lon, radius |-> radius,
                              type |-> obstacle_type, timestamp |-> now])
    /\ UNCHANGED <<current_goal, nav_in, nav_command, now, plan, swept>>
    /\ UNCHANGED <<legVars, ctlVars>>

\* the keys clear_old_obstacles collects in to_remove
Expired(map, current_time, max_age_seconds) ==
    { k \in DOMAIN map : current_time - map[k].timestamp > max_age_seconds }

\* a call of clear_old_obstacles: its argument, its time, the keys removed
Sweep(max_age_seconds, current_time, removed) ==
    [called |-> TRUE, max_age |-> max_age_seconds, time |-> current_time,
     removed |-> removed]

\* no call of clear_old_obstacles made yet
NoSweep == [called |-> FALSE, max_age |-> 0, time |-> 0, removed |-> {}]

\* a sweep that removes the entries aged max_age_seconds as well
ClearFromMaxAge(max_age_seconds) ==
    LET to_remove == { k \in DOMAIN obstacle_map :
                         now - obstacle_map[k].timestamp >= max_age_seconds }
    IN  /\ obstacle_map' = [ k \in DOMAIN obstacle_map \ to_remove |-> obstacle_map[k] ]
        /\ swept' = Sweep(max_age_seconds, now, to_remove)
        /\ UNCHANGED <<current_goal, nav_in, nav_command, now, plan>>
        /\ UNCHANGED <<legVars, ctlVars>>

\* clear_old_obstacles(max_age_seconds)
clear_old_obstacles(max_age_seconds) ==
    /\ obstacle_map' = [ k \in DOMAIN obstacle_map \ Expired(obstacle_map, now, max_age_seconds)
                           |-> obstacle_map[k] ]
    /\ swept' = Sweep(max_age_seconds, now, Expired(obstacle_map, now, max_age_seconds))
    /\ UNCHANGED <<current_goal, nav_in, nav_command, now, plan>>
    /\ UNCHANGED <<legVars, ctlVars>>

\* a second passes
Advance ==
    /\ now < MaxTime
    /\ now' = now + 1
    /\ UNCHANGED <<current_goal, nav_in, nav_command, obstacle_map, plan, swept>>
    /\ UNCHANGED <<legVars, ctlVars>>

\* NavigationAI.__init__
NavInit ==
    /\ current_goal = NoGoal
    /\ nav_in = NoInput
    /\ nav_command = NoCommand
    /\ obstacle_map = << >>
    /\ now = 0
    /\ plan = NoPlan
    /\ swept = NoSweep

----------------------------------------------------------------------------
(* RoboticDogController *)

legRest == <<current_positions, movement_lock, caller, write_from, view>>

\* a value of current_command
CurrentCommand(command, speed) == [command |-> command, speed |-> speed]

\* a position fix; get_current_location() returns None without one
Fix(lat, lon, heading) ==
    [fix |-> TRUE, latitude |-> lat, longitude |-> lon, heading |-> heading]

NoFix == [fix |-> FALSE, latitude |-> 0, longitude |-> 0, heading |-> 0]

\* one of move_forward / move_backward / turn_left / turn_right: the gait
\* call of LegController (the flag set, the thread started), then
\* movement_active and current_command
StartMovement(kind, dir, len, speed, command, maxTasks) ==
    /\ Len(tasks) < maxTasks
    /\ moving' = TRUE
    /\ tasks' = Append(tasks, [NewTask(kind, dir, Deg(StepHeight), Deg(len), speed)
                                  EXCEPT !.pc = "start"])
    /\ stopCalls' = 0
    /\ movement_active' = TRUE
    /\ current_command' = CurrentCommand(command, speed)

move_forward(speed, maxTasks) ==
    StartMovement("walk", "forward", StepLength, speed, "forward", maxTasks)

move_backward(speed, maxTasks) ==
    StartMovement("walk", "backward", StepLength, speed, "backward", maxTasks)

robot_turn_left(speed, maxTasks) ==
    StartMovement("turn", "left", TurnAngle, speed, "left", maxTasks)

robot_turn_right(speed, maxTasks) ==
    StartMovement("turn", "right", TurnAngle, speed, "right", maxTasks)

\* stop(): legs.stop_movement(), movement_active, current_command
stop ==
    /\ moving' = StoppedFlag
    /\ stopCalls' = IF stopCalls < MaxStops THEN stopCalls + 1 ELSE stopCalls
    /\ movement_active' = FALSE
    /\ current_command' = CurrentCommand("stop", -1)
    /\ UNCHANGED tasks

\* an execute_navigation_command that leaves autonomous mode on at the goal
ExecuteKeepingMode(command, maxTasks) ==
    /\ CASE command.command = "forward"    -> move_forward(command.speed, maxTasks)
         [] command.command = "turn_left"  -> robot_turn_left(10000, maxTasks)
         [] command.command = "turn_right" -> robot_turn_right(10000, maxTasks)
         [] OTHER                          -> stop
    /\ UNCHANGED <<autonomous_mode, current_goal>>

\* execute_navigation_command(nav_command): turns use the default speed 1.0
execute_navigation_command(command, maxTasks) ==
    /\ CASE command.command = "forward"    -> move_forward(command.speed, maxTasks)
         [] command.command = "turn_left"  -> robot_turn_left(10000, maxTasks)
         [] command.command = "turn_right" -> robot_turn_right(10000, maxTasks)
         [] OTHER                          -> stop
    /\ autonomous_mode' =
          IF command.command = "stop" /\ command.goal_achieved THEN FALSE ELSE autonomous_mode
    /\ UNCHANGED current_goal

\* what tick_result holds after a tick that returned before the decision
NoDecision == Command("none", "no location", FALSE, -1, -1, -1)

\* a tick that stops the robot when there is no location
StopWithoutFix ==
    /\ tick_result' = NoDecision
    /\ stop
    /\ UNCHANGED <<legRest, navVars, autonomous_mode, gps_location, frame_obstacles, reply>>

\* autonomous_navigation_step: `if not location: return`
TickWithoutFix ==
    /\ tick_result' = NoDecision
    /\ UNCHANGED <<legVars, navVars, autonomous_mode, current_command, movement_active,
                   gps_location, frame_obstacles, reply>>

\* main_control_loop's `if self.autonomous_mode`, and
\* autonomous_navigation_step
Tick(maxTasks) ==
    /\ autonomous_mode
    /\ IF ~gps_location.fix
       THEN TickWithoutFix
       ELSE LET command == get_next_movement_command(current_goal,
                               gps_location.latitude, gps_location.longitude,
                               gps_location.heading, frame_obstacles)
            IN  /\ tick_result' = command
                /\ execute_navigation_command(command, maxTasks)
                /\ UNCHANGED <<legRest, nav_in, nav_command, mapVars, gps_location,
                               frame_obstacles, reply>>

\* navigate_to(target_lat, target_lon): the goal set, the path planned when
\* there is a fix, autonomous mode enabled
Navigated(target_lat, target_lon) ==
    /\ current_goal' = Goal(target_lat, target_lon)
    /\ plan' = IF gps_location.fix
               THEN [PlanCall(Goal(target_lat, target_lon),
                              gps_location.latitude, gps_location.longitude, << >>)
                        EXCEPT !.request = TRUE]
               ELSE plan
    /\ autonomous_mode' = IF gps_location.fix THEN TRUE ELSE autonomous_mode
    /\ tick_result' = NoCommand
    /\ UNCHANGED <<legVars, nav_in, nav_command, obstacle_map, now, swept, current_command,
                   movement_active, gps_location, frame_obstacles>>

\* navigate_to(target_lat, target_lon), called directly
navigate_to(target_lat, target_lon) ==
    /\ Navigated(target_lat, target_lon)
    /\ UNCHANGED reply

\* what execute_command returned for a navigate request
Reply(lat, lon, status) == [called |-> TRUE, latitude |-> lat, longitude |-> lon,
                           status |-> status]

NoReply == [called |-> FALSE, latitude |-> 0, longitude |-> 0, status |-> "none"]

\* execute_command('gps', {'action': 'navigate', 'latitude': lat,
\* 'longitude': lon}): `if lat and lon` is False for a coordinate of 0, and
\* the call then falls off the end of the branch and returns None
execute_command_navigate(lat, lon) ==
    IF lat # 0 /\ lon # 0
    THEN /\ Navigated(lat, lon)
         /\ reply' = Reply(lat, lon, "success")
    ELSE /\ reply' = Reply(lat, lon, "None")
         /\ UNCHANGED <<legVars, navVars, autonomous_mode, current_command, movement_active,
                        gps_location, frame_obstacles, tick_result>>

\* set_autonomous_mode(enabled)
set_autonomous_mode(enabled) ==
    /\ autonomous_mode' = enabled
    /\ tick_result' = NoCommand
    /\ UNCHANGED <<legVars, navVars, current_command, movement_active,
                   gps_location, frame_obstacles, reply>>

\* execute_command('move', {direction, speed})
Move(direction, speed, maxTasks) ==
    /\ CASE direction = "forward"  -> move_forward(speed, maxTasks)
         [] direction = "backward" -> move_backward(speed, maxTasks)
         [] direction = "left"     -> robot_turn_left(speed, maxTasks)
         [] direction = "right"    -> robot_turn_right(speed, maxTasks)
         [] OTHER                  -> stop
    /\ tick_result' = NoCommand
    /\ UNCHANGED <<legRest, navVars, autonomous_mode, gps_location, frame_obstacles, reply>>

\* the GPS thread stores a fix, or loses it
GpsUpdate(location) ==
    /\ gps_location' = location
    /\ UNCHANGED <<legVars, navVars, autonomous_mode, current_command, movement_active,
                   frame_obstacles, tick_result, reply>>

\* process_camera_frame stores the frame's analysis, and a non-empty
\* obstacle list in the obstacle map
VisionUpdate(obstacles) ==
    /\ frame_obstacles' = obstacles
    /\ obstacle_map' = IF obstacles # << >>
                       THEN Store(obstacle_map, VisionId(now),
                                  [obstacles |-> obstacles, timestamp |-> now])
                       ELSE obstacle_map
    /\ UNCHANGED <<legVars, current_goal, nav_in, nav_command, now, plan, swept, autonomous_mode,
                   current_command, movement_active, gps_location, tick_result, reply>>

\* RoboticDogController.__init__
CtlInit ==
    /\ autonomous_mode = FALSE
    /\ current_command = CurrentCommand("none", -1)
    /\ movement_active = FALSE
    /\ gps_location = NoFix
    /\ frame_obstacles = << >>
    /\ tick_result = NoCommand
    /\ reply = NoReply

\* the state after the controller and its parts are constructed
Init == LegInit /\ NavInit /\ CtlInit

----------------------------------------------------------------------------
(* The gait engine alone: gaits started and stopped while gait threads run *)

GaitNext ==
    \/ \E speed \in Speeds : walk_forward(Deg(StepHeight), Deg(StepLength), speed, MaxTasks)
    \/ \E speed \in Speeds : walk_backward(Deg(StepHeight), Deg(StepLength), speed, MaxTasks)
    \/ \E speed \in Speeds : turn_left(Deg(StepHeight), Deg(TurnAngle), speed, MaxTasks)
    \/ \E speed \in Speeds : turn_right(Deg(StepHeight), Deg(TurnAngle), speed, MaxTasks)
    \/ \E t \in TaskIds : ThreadStart(t)
    \/ stop_movement
    \/ \E t \in TaskIds : GaitStep(t)

SpecGait == Init /\ [][GaitNext]_vars

----------------------------------------------------------------------------
(* The leg position table: a client thread calling the setters and a status
   reader, beside a gait thread; set_leg_position writes a joint at a time *)

\* legs named by the client thread and looked at by the reader
CallerLegs == {"front_left", "rear_right", UnknownLeg}

\* angles dicts passed to set_leg_position: out of range on both sides; one
\* joint only; a key that is no joint
SetLegInputs ==
    { << <<"hip", Deg(200)>>, <<"knee", Deg(-20)>>, <<"ankle", Deg(60)>> >>,
      << <<"ankle", Deg(120)>> >>,
      << <<"wrist", Deg(10)>>, <<"hip", Deg(181)>> >> }

\* target_angles passed to smooth_move_leg
SmoothTargets == { Angles(Deg(200), Deg(-20), Deg(61)) }

\* durations passed to smooth_move_leg, in hundredths of a second
Durations == {4, 5, 10}

Next ==
    \/ \E speed \in Speeds : walk_forward(Deg(StepHeight), Deg(StepLength), speed, MaxTableTasks)
    \/ \E speed \in Speeds : walk_backward(Deg(StepHeight), Deg(StepLength), speed, MaxTableTasks)
    \/ \E speed \in Speeds : turn_left(Deg(StepHeight), Deg(TurnAngle), speed, MaxTableTasks)
    \/ \E speed \in Speeds : turn_right(Deg(StepHeight), Deg(TurnAngle), speed, MaxTableTasks)
    \/ \E t \in TaskIds : ThreadStart(t)
    \/ stop_movement
    \/ \E t \in TaskIds : TaskStep(t)
    \/ \E leg \in CallerLegs, e \in SetLegInputs : CallSetLeg(leg, e)
    \/ \E leg \in CallerLegs, target \in SmoothTargets, d \in Durations :
          CallSmooth(leg, target, d)
    \/ CallDefault
    \/ CallerWrite
    \/ \E leg \in CallerLegs \ {UnknownLeg} : get_current_positions(leg)

Spec == Init /\ [][Next]_vars

----------------------------------------------------------------------------
(* NavigationAI alone: goals set and decisions asked for *)

\* latitudes in micro-degrees: 5 is 0.56 m, 9 is 1.0008 m, 100 is 11.12 m
NavLats == {0, 5, 9, 100}

\* longitudes in micro-degrees
NavLons == {0, 100}

\* goals passed to set_goal
NavGoals == { <<0, 0>>, <<100, 100>> }

\* headings in tenths of a degree
Headings == {0, 149, 150, 450, 1799, 1800, 1801, 2700, 3450, 3451}

Obstacle(position, distance_estimate) ==
    [position |-> position, distance_estimate |-> distance_estimate]

\* vision obstacle lists, distances in decimetres
VisionLists ==
    { << >>,
      << Obstacle("center", 10), Obstacle("right", 10) >>,
      << Obstacle("center", 30), Obstacle("left", 10) >>,
      << Obstacle("left", 10), Obstacle("right", 15) >>,
      << Obstacle("center", 15), Obstacle("left", 3), Obstacle("right", 30) >>,
      << Obstacle("center", 10), Obstacle("left", 15), Obstacle("right", 15) >>,
      << [position |-> "center"] >> }

NavNext ==
    \/ \E g \in NavGoals : set_goal(g[1], g[2])
    \/ \E lat \in NavLats, lon \in NavLons, heading \in Headings, obstacles \in VisionLists :
          Decide(lat, lon, heading, obstacles)

SpecNav == Init /\ [][NavNext]_vars

----------------------------------------------------------------------------
(* The planner: goals, planned paths with and without an obstacle list,
   decisions, navigate requests, and obstacles added to the map *)

\* goals, in micro-degrees: 1.1 m, 11.1 m (twice) and 95.0 m from the origin
PlanGoals == { <<0, 10>>, <<0, 100>>, <<60, 80>>, <<0, 854>> }

\* positions the paths start at
PlanStarts == { <<0, 0>>, <<0, 90>> }

\* obstacle lists passed to calculate_path_to_goal: none; one around the
\* waypoint (0, 50) that leaves the probes free; one that covers every
\* probe; two that cover the waypoint and its first probe; one dict with a
\* radius only, which point_in_obstacle places at (0, 0)
ObstacleLists ==
    { << >>,
      << MapObstacle(0, 50, 1000) >>,
      << MapObstacle(0, 50, 5000) >>,
      << MapObstacle(0, 50, 1000), MapObstacle(18, 50, 1000) >>,
      << MapObstacle(30, 40, 1000), [radius |-> 1000] >> }

\* obstacles added to the map: tenths of a micro-degree, millimetres
PlanObstacles == { <<0, 500, 1000, "static">>, <<0, 500, 5000, "dynamic">> }

PlanFixes == { NoFix, Fix(0, 0, 0) }

PlanNext ==
    \/ \E g \in PlanGoals : set_goal(g[1], g[2])
    \/ \E start \in PlanStarts, obstacles \in ObstacleLists :
          PlanPath(start[1], start[2], obstacles)
    \/ \E start \in PlanStarts : Decide(start[1], start[2], 900, << >>)
    \/ \E o \in PlanObstacles : add_obstacle_to_map(o[1], o[2], o[3], o[4])
    \/ navigate_to(0, 100)
    \/ \E location \in PlanFixes : GpsUpdate(location)

SpecPlan == Init /\ [][PlanNext]_vars

----------------------------------------------------------------------------
(* The obstacle map: obstacles added, camera frames stored and old entries
   swept while the clock runs, beside reads of the planner and of the
   decision engine *)

\* add_obstacle_to_map arguments: latitudes -0.0000001, 0.0000001, 0.0000004
\* and 0.0000014, longitude 0.00005; radius in millimetres
MapInserts ==
    { <<-1, 500, 1000, "static">>, <<1, 500, 2000, "dynamic">>,
      <<4, 500, 1000, "static">>, <<14, 500, 1000, "static">> }

\* max_age_seconds passed to clear_old_obstacles
MaxAges == {0, 1}

MapNext ==
    \/ \E o \in MapInserts : add_obstacle_to_map(o[1], o[2], o[3], o[4])
    \/ \E max_age \in MaxAges : clear_old_obstacles(max_age)
    \/ Advance
    \/ VisionUpdate(<< Obstacle("center", 10) >>)
    \/ set_goal(0, 100)
    \/ PlanPath(0, 0, << >>)
    \/ Decide(0, 0, 900, << >>)

SpecMap == Init /\ [][MapNext]_vars

----------------------------------------------------------------------------
(* The controller: requests, position fixes and autonomous ticks, with the
   gait threads the ticks and the move requests start *)

\* goals of navigate requests
CtlGoals == { <<100, 100>>, <<0, 100>> }

\* position fixes: none; 0.56 m from the first goal; far from both goals
CtlFixes == { NoFix, Fix(100, 95, 0), Fix(0, 0, 0), Fix(0, 0, 900) }

CtlVision == { << >>, << Obstacle("center", 10), Obstacle("right", 10) >> }

CtlNext ==
    \/ \E g \in CtlGoals : navigate_to(g[1], g[2])
    \/ \E enabled \in BOOLEAN : set_autonomous_mode(enabled)
    \/ \E direction \in {"forward", "backward", "left", "right", "stop"}, speed \in Speeds :
          Move(direction, speed, MaxTableTasks)
    \/ Tick(MaxTableTasks)
    \/ \E location \in CtlFixes : GpsUpdate(location)
    \/ \E obstacles \in CtlVision : VisionUpdate(obstacles)
    \/ \E t \in TaskIds : GaitStep(t)

SpecCtl == Init /\ [][CtlNext]_vars

----------------------------------------------------------------------------
(* Consecutive autonomous ticks: a navigate request, position fixes, ticks
   and the gait threads the ticks start *)

\* position fixes: none; 11.1 m west of the goal, heading east
TickFixes == { NoFix, Fix(0, 0, 900) }

TickNext ==
    \/ navigate_to(0, 100)
    \/ \E location \in TickFixes : GpsUpdate(location)
    \/ Tick(MaxTasks)
    \/ \E t \in TaskIds : GaitStep(t)

SpecTicks == Init /\ [][TickNext]_vars

----------------------------------------------------------------------------
(* An external stop during autonomous navigation: one navigate request made
   before any other command, then ticks and stop commands; no navigate and
   no move command arrives after a stop *)

CancelNext ==
    \/ current_command.command = "none" /\ navigate_to(0, 100)
    \/ \E location \in TickFixes : GpsUpdate(location)
    \/ Tick(MaxTasks)
    \/ Move("stop", 10000, MaxTasks)
    \/ \E t \in TaskIds : GaitStep(t)

SpecCancel == Init /\ [][CancelNext]_vars

----------------------------------------------------------------------------
(* Navigate requests from the transport layer, position fixes, and the ticks
   and gait threads that follow *)

\* coordinates of the navigate requests, in micro-degrees: on the equator or
\* the prime meridian, and off them on either side
CommandCoords == {-100, 0, 100}

CommandNext ==
    \/ \E lat \in CommandCoords, lon \in CommandCoords : execute_command_navigate(lat, lon)
    \/ \E location \in TickFixes : GpsUpdate(location)
    \/ Tick(MaxTableTasks)
    \/ \E t \in TaskIds : GaitStep(t)

SpecCommand == Init /\ [][CommandNext]_vars

----------------------------------------------------------------------------
(* The gait threads under a fair scheduler: a thread that can take a step   *)
(* eventually takes one (the threads are daemon threads of a live process,  *)
(* their only waits are time.sleep and the movement lock).                  *)

ThreadRuns(t) == t \in TaskIds /\ (ThreadStart(t) \/ GaitStep(t))

\* a walk and a turn started and stopped
StopNext ==
    \/ \E speed \in Speeds : walk_forward(Deg(StepHeight), Deg(StepLength), speed, MaxTasks)
    \/ \E speed \in Speeds : turn_right(Deg(StepHeight), Deg(TurnAngle), speed, MaxTasks)
    \/ \E t \in TaskIds : ThreadStart(t)
    \/ stop_movement
    \/ \E t \in TaskIds : GaitStep(t)

FairSpecStop ==
    Init /\ [][StopNext]_vars /\ \A t \in 1 .. MaxTasks : WF_vars(ThreadRuns(t))

----------------------------------------------------------------------------
(* The gait threads under a fair scheduler with their loops left running: a  *)
(* thread that has made MaxPasses passes and reads the flag as True goes on  *)
(* with its loop, the last pass no longer counted.                           *)

\* `while self.moving` read as True after MaxPasses passes
PassOn(t) ==
    /\ tasks[t].pc = "while"
    /\ moving
    /\ tasks[t].passes >= MaxPasses
    /\ tasks[t].kind = "walk" => tasks[t].i = 1
    /\ LET r == [tasks[t] EXCEPT !.passes = MaxPasses - 1]
       IN  tasks' = [tasks EXCEPT ![t] =
               IF r.kind = "walk" THEN WalkChecked(r, TRUE) ELSE TurnWhiled(r, TRUE)]
    /\ UNCHANGED <<current_positions, moving, movement_lock, caller, write_from, view, stopCalls>>
    /\ UNCHANGED <<navVars, ctlVars>>

ThreadLoops(t) == t \in TaskIds /\ (ThreadStart(t) \/ GaitStep(t) \/ PassOn(t))

RestartNext ==
    \/ walk_forward(Deg(StepHeight), Deg(StepLength), 10000, MaxTasks)
    \/ \E t \in TaskIds : ThreadStart(t)
    \/ stop_movement
    \/ \E t \in TaskIds : GaitStep(t)
    \/ \E t \in TaskIds : PassOn(t)

FairSpecRestart ==
    Init /\ [][RestartNext]_vars /\ \A t \in 1 .. MaxTasks : WF_vars(ThreadLoops(t))

----------------------------------------------------------------------------
(* A gait thread with its loop left running, started and stopped, from the
   pose of the constructor or, after move_to_default_position() has
   returned, from the standing pose *)

\* step_height values of the gait calls, in degrees: the default, and one
\* that takes knee and ankle to their limits
StepHeights == {StepHeight, 100}

\* the client thread is in no call
CallerIdle == caller.op = "idle"

LoopNext ==
    \/ tasks = << >> /\ CallDefault
    \/ CallerWrite
    \/ \E speed \in Speeds, h \in StepHeights :
          CallerIdle /\ walk_forward(Deg(h), Deg(StepLength), speed, MaxTableTasks)
    \/ \E speed \in Speeds :
          CallerIdle /\ walk_backward(Deg(StepHeight), Deg(StepLength), speed, MaxTableTasks)
    \/ \E speed \in Speeds, h \in StepHeights :
          CallerIdle /\ turn_left(Deg(h), Deg(TurnAngle), speed, MaxTableTasks)
    \/ \E speed \in Speeds :
          CallerIdle /\ turn_right(Deg(StepHeight), Deg(TurnAngle), speed, MaxTableTasks)
    \/ \E t \in TaskIds : ThreadStart(t)
    \/ stop_movement
    \/ \E t \in TaskIds : GaitStep(t)
    \/ \E t \in TaskIds : PassOn(t)

SpecLoop == Init /\ [][LoopNext]_vars

----------------------------------------------------------------------------
(* Properties: LegController *)

AliveTasks == {t \in TaskIds : Alive(t)}

\* every gait thread has returned or died
AllExited == \A t \in TaskIds : tasks[t].pc \in {"done", "crashed"}

\* C1: at no time are two gait threads alive together (the running thread
\* has exited before a newly started one runs).
C1_OneGaitTaskAlive == Cardinality(AliveTasks) <= 1

\* C2: every hip, knee and ankle angle stored in current_positions lies in
\* [0, 180], in every reachable state.
C2_AnglesInRange ==
    \A leg \in Legs : \A joint \in JointSet :
        /\ current_positions[leg][joint] >= 0
        /\ current_positions[leg][joint] <= Deg(180)

\* C2 witness: a setter has stored angles commanded above 180 and below 0
C2_Clamped ==
    \E leg \in Legs :
        /\ current_positions[leg].hip = Deg(180)
        /\ current_positions[leg].knee = 0
        /\ caller.ret = "True"

\* C3, first part: once stop_movement() has been called and no gait started
\* since, the moving flag is False.
C3_FlagCleared == stopCalls >= 1 => ~moving

\* C3, second part: a stop_movement() call after the first changes nothing
\* (but the count of the calls).
C3_LaterStopsIdle ==
    (stopCalls >= 1 /\ stopCalls' = stopCalls + 1)
        => UNCHANGED <<current_positions, moving, movement_lock, tasks, caller,
                       write_from, view>>

\* C3, fourth part: with the flag False, gait threads that have all exited
\* stay exited until a gait is started.
C3_StaysIdle ==
    (AllExited /\ ~moving /\ ~moving') => (AllExited' /\ tasks' = tasks)

\* C3: after stop_movement() has been called N >= 1 times and no gait is
\* started afterwards, the flag is False after the first call, later calls
\* change nothing, every gait thread eventually exits, and the gait state
\* then stays idle.
C3_StopIdempotent ==
    /\ [] C3_FlagCleared
    /\ [][C3_LaterStopsIdle]_vars
    /\ [][C3_StaysIdle]_vars
    /\ (stopCalls >= 1) ~> (moving \/ AllExited)

\* C3 witness: stop_movement() called more than once after two gaits were
\* started, and every gait thread has returned
C3_StoppedTwice ==
    /\ stopCalls >= 2
    /\ Len(tasks) >= 2
    /\ \A t \in TaskIds : tasks[t].pc = "done"

\* a gait thread about to start the swing, rotate or lower phase of the step
\* cycle it is in
LaterPhaseStart(t) ==
    \/ /\ tasks[t].kind = "walk"
       /\ tasks[t].pc = "read"
       /\ tasks[t].k = 1
       /\ tasks[t].phase \in {"swing", "lower"}
    \/ /\ tasks[t].kind = "turn"
       /\ tasks[t].pc = "write"
       /\ movement_lock # t
       /\ tasks[t].phase \in {"rotate", "lower"}

\* a gait thread about to read self.moving
AtCheck(r) == r.pc \in {"while", "for"}

\* a gait thread about to start a step cycle (_step_cycle / _turn_step)
CycleStart(r) == r.pc = "read" /\ r.phase = "lift" /\ r.k = 1

\* gait thread t takes a step
Steps(t) == tasks'[t] # tasks[t]

UnknownLegCall(c) == c.arg \notin Legs \union {"none", "all"}

\* C5: set_leg_position and smooth_move_leg called with a leg name that is
\* not one of the four legs return False, and the call leaves the stored
\* angles of every leg unchanged.
C5_UnknownLegRejected ==
    /\ [](UnknownLegCall(caller) => (caller.op = "idle" /\ caller.ret = "False"))
    /\ [][(caller'.n = caller.n + 1 /\ UnknownLegCall(caller'))
             => current_positions' = current_positions]_vars

\* C5 witness: smooth_move_leg has returned from a call with an unknown leg
C5_Rejected ==
    /\ caller.arg = UnknownLeg
    /\ caller.ns = 1
    /\ caller.ret = "False"

\* C6: a reader of get_current_positions never sees a leg with some joints
\* of a running set_leg_position written and the others not yet.
C6_NoPartialLeg == ~view.torn

\* thread self (the client thread or a gait thread) is inside
\* set_leg_position
InSetLeg(self) ==
    IF self = CallerId THEN caller.op # "idle"
    ELSE self \in TaskIds /\ tasks[self].pc = "write"

WriterLeg(self) == IF self = CallerId THEN caller.leg ELSE TaskLeg(tasks[self])

WriterTodo(self) == IF self = CallerId THEN caller.todo ELSE tasks[self].todo

\* C22: every change of a stored angle is one joint written by a thread that
\* is inside set_leg_position and holds movement_lock; starting a gait,
\* stop_movement and get_current_positions change no angle
C22_OnlySetLegWrites ==
    [][current_positions' # current_positions =>
          /\ \E self \in {CallerId} \union TaskIds :
                /\ InSetLeg(self)
                /\ movement_lock \in {Free, self}
                /\ movement_lock' \in {Free, self}
                /\ movement_lock' = Free <=> Len(WriterTodo(self)) = 1
                /\ WriterTodo(self) # << >>
                /\ current_positions' =
                      WriteJoint(current_positions, WriterLeg(self), Head(WriterTodo(self)))
          /\ UNCHANGED <<moving, view, stopCalls>>
          /\ Len(tasks') = Len(tasks)]_vars

\* a gait thread and smooth_move_leg have both written the table, a gait was
\* stopped and a reader has read a leg
C22_AllWriters ==
    /\ \E t \in TaskIds : tasks[t].phase \in {"swing", "rotate", "lower"}
    /\ caller.ns = 1 /\ caller.op = "smooth" /\ caller.step >= 1
    /\ stopCalls >= 1
    /\ view.leg # "none"
    /\ current_positions # [l \in Legs |-> Angles(Deg(90), Deg(90), Deg(90))]

\* gait thread t has returned or died
Exited(t) == t \in TaskIds /\ tasks[t].pc \in {"done", "crashed"}

\* C24: a gait thread that is running when stop_movement() clears the flag
\* eventually exits, also when a new gait is started right after the stop
C24_StoppedTaskExits ==
    \A t \in 1 .. MaxTasks :
        (t \in TaskIds /\ Alive(t) /\ ~moving /\ stopCalls >= 1) ~> Exited(t)

\* the place of a walk thread in a pass of its loop, counted in
\* set_leg_position calls: 0..5 in the first _step_cycle, 6..11 in the second
Slot(r) ==
    6 * (r.i - 1) + r.k - 1
      + (CASE r.phase = "lift" -> 0 [] r.phase = "swing" -> 2 [] OTHER -> 4)

\* the legs a pass of the trot writes, in order
TrotOrder ==
    <<"front_left", "rear_right", "front_left", "rear_right", "front_left", "rear_right",
      "front_right", "rear_left", "front_right", "rear_left", "front_right", "rear_left">>

\* the phases of the writes of a pass, in order
TrotPhases ==
    <<"lift", "lift", "swing", "swing", "lower", "lower",
      "lift", "lift", "swing", "swing", "lower", "lower">>

\* the legs a step leaves as they were
Untouched == { leg \in Legs : current_positions'[leg] = current_positions[leg] }

\* C26: a walk thread writes front_left and rear_right through lift, swing
\* and lower, then front_right and rear_left through lift, swing and lower,
\* and so on in turns, starting with front_left and rear_right; between the
\* lift and the lower of a pair it writes no leg of the other pair
C26_PairsAlternate ==
    [][\A t \in TaskIds :
          (Steps(t) /\ tasks[t].kind = "walk") =>
              LET r == tasks[t]
                  q == tasks'[t]
              IN  /\ r.pc = "start" => (q.pc = "crashed" \/ (q.pc = "while" /\ q.i = 1))
                  /\ (r.pc = "while" /\ q.pc # "done") =>
                        /\ q.pc = "read"
                        /\ Slot(q) = IF r.i = 1 THEN 0 ELSE 6
                  /\ r.pc = "read" =>
                        /\ q.pc = "write" /\ Slot(q) = Slot(r)
                        /\ TrotPhases[Slot(r) + 1] = r.phase
                        /\ Untouched = Legs
                  /\ r.pc = "write" =>
                        /\ Legs \ {TrotOrder[Slot(r) + 1]} \subseteq Untouched
                        /\ IF Slot(r) \in {5, 11}
                           THEN q.pc = "while" /\ q.i = (IF Slot(r) = 5 THEN 2 ELSE 1)
                           ELSE q.pc = "read" /\ Slot(q) = Slot(r) + 1]_vars

\* a walk thread running alone from the initial pose is lifting the second
\* pair, the first pair lowered and the second pair not yet written
C26_SecondPairLifting ==
    /\ Len(tasks) = 1
    /\ tasks[1].kind = "walk" /\ tasks[1].pc = "write"
    /\ Slot(tasks[1]) = 6
    /\ current_positions["front_left"].knee = Deg(45)
    /\ current_positions["rear_right"].ankle = Deg(45)
    /\ current_positions["front_right"] = Angles(Deg(90), Deg(90), Deg(90))
    /\ current_positions["rear_left"] = Angles(Deg(90), Deg(90), Deg(90))

\* the order a left turn steps the legs in, and the order of a right turn
LeftTurnOrder == <<"front_left", "rear_left", "front_right", "rear_right">>

RightTurnOrder == <<"rear_right", "front_right", "rear_left", "front_left">>

TurnOrder(dir) == IF dir = "left" THEN LeftTurnOrder ELSE RightTurnOrder

\* C27: a turn thread steps one leg at a time (lift, rotate, lower), in the
\* order front_left, rear_left, front_right, rear_right for a left turn and
\* rear_right, front_right, rear_left, front_left for a right turn; while it
\* reads the flag as True the next leg follows, and the first leg follows
\* the last
C27_TurnOrder ==
    [][\A t \in TaskIds :
          (Steps(t) /\ tasks[t].kind = "turn") =>
              LET r == tasks[t]
                  q == tasks'[t]
              IN  /\ r.pc = "start" => (q.pc = "crashed" \/ q.pc = "while")
                  /\ r.pc = "while" =>
                        IF moving THEN q.pc = "for" /\ q.i = 1 ELSE q.pc = "done"
                  /\ r.pc = "for" =>
                        IF moving THEN q.pc = "read" /\ q.i = r.i ELSE q.pc = "while"
                  /\ r.pc = "read" =>
                        /\ q.pc = "write" /\ q.phase = "lift" /\ q.i = r.i
                        /\ Untouched = Legs
                  /\ r.pc = "write" =>
                        /\ Legs \ {TurnOrder(r.dir)[r.i]} \subseteq Untouched
                        /\ CASE r.phase = "lift" ->
                                  q.pc = "write" /\ q.phase = "rotate" /\ q.i = r.i
                             [] r.phase = "rotate" ->
                                  q.pc = "write" /\ q.phase = "lower" /\ q.i = r.i
                             [] OTHER ->
                                  IF r.i = 4 THEN q.pc = "while"
                                  ELSE q.pc = "for" /\ q.i = r.i + 1]_vars

\* a right turn running alone from the initial pose has stepped rear_right
\* and is lowering front_right, the other two legs not yet written
C27_SecondLegOfRightTurn ==
    /\ Len(tasks) = 1
    /\ tasks[1].kind = "turn" /\ tasks[1].dir = "right"
    /\ tasks[1].pc = "write" /\ tasks[1].phase = "lower" /\ tasks[1].i = 2
    /\ current_positions["rear_right"] = Angles(Deg(60), Deg(90), Deg(45))
    /\ current_positions["front_right"].knee = Deg(60)
    /\ current_positions["rear_left"] = Angles(Deg(90), Deg(90), Deg(90))
    /\ current_positions["front_left"] = Angles(Deg(90), Deg(90), Deg(90))

FrontLegs == {"front_left", "front_right"}

LeftLegs == {"front_left", "rear_left"}

\* the table with leg's joint set to angle
With(leg, joint, angle) == [current_positions EXCEPT ![leg][joint] = angle]

\* walk thread t stores the angles of the given phase
WalkWrites(t, phase) ==
    /\ Steps(t)
    /\ tasks[t].kind = "walk" /\ tasks[t].pc = "write" /\ tasks[t].phase = phase

\* C28: the lift of a walk step cycle gives a front leg of the pair
\* knee = max(10, knee - step_height) and a rear leg of the pair
\* ankle = min(170, ankle + step_height), and changes no other joint and no
\* other leg
C28_Lift ==
    [][\A t \in TaskIds :
          WalkWrites(t, "lift") =>
              LET leg == TrotOrder[Slot(tasks[t]) + 1]
                  cur == current_positions[leg]
                  h == tasks[t].h
              IN  current_positions' =
                      IF leg \in FrontLegs
                      THEN With(leg, "knee",
                                IF cur.knee - h > Deg(10) THEN cur.knee - h ELSE Deg(10))
                      ELSE With(leg, "ankle",
                                IF cur.ankle + h < Deg(170) THEN cur.ankle + h ELSE Deg(170))]_vars

\* C29: the swing of a walk step cycle gives each leg of the pair
\* hip = min(135, max(45, hip + d)), d = +step_length for a left leg walking
\* forward, -step_length for a left leg walking backward and the opposite
\* sign for a right leg, and changes neither knee nor ankle
C29_Swing ==
    [][\A t \in TaskIds :
          WalkWrites(t, "swing") =>
              LET leg == TrotOrder[Slot(tasks[t]) + 1]
                  cur == current_positions[leg]
                  len == tasks[t].len
                  d == IF (leg \in LeftLegs) <=> (tasks[t].dir = "forward")
                       THEN len ELSE -len
                  hip == cur.hip + d
              IN  current_positions' =
                      With(leg, "hip",
                           IF hip > Deg(135) THEN Deg(135)
                           ELSE IF hip < Deg(45) THEN Deg(45) ELSE hip)]_vars

\* the standing pose of move_to_default_position
Standing(leg) ==
    IF leg \in FrontLegs THEN Angles(Deg(90), Deg(45), Deg(135))
    ELSE Angles(Deg(90), Deg(135), Deg(45))

\* move_to_default_position() was called and has returned
Stood == caller.op = "idle" /\ caller.ret = "None"

\* gait thread t is inside a step: it has copied a leg or is storing one
InCycle(t) == tasks[t].pc \in {"read", "write"}

\* leg is as its last lower phase left it
Lowered(leg) ==
    IF leg \in FrontLegs THEN current_positions[leg].knee = Deg(45)
    ELSE current_positions[leg].ankle = Deg(45)

\* C30, the lower phase: it leaves a front leg with knee = 45 and a rear leg
\* with ankle = 45, whatever the angles before
C30_LowerSets45 ==
    \A t \in TaskIds :
        (Steps(t) /\ tasks[t].pc = "write" /\ tasks[t].phase = "lower") =>
            LET leg == IF tasks[t].kind = "walk" THEN TrotOrder[Slot(tasks[t]) + 1]
                       ELSE TurnOrder(tasks[t].dir)[tasks[t].i]
            IN  IF leg \in FrontLegs
                THEN current_positions'[leg].knee = Deg(45)
                ELSE current_positions'[leg].ankle = Deg(45)

\* C30, the exit: a gait thread that ran alone leaves every leg it has
\* written lowered
C30_ExitsLowered ==
    (Len(tasks) = 1 /\ tasks[1].pc = "done") =>
            \A leg \in Legs :
                \/ Lowered(leg)
                \/ current_positions[leg] = Angles(Deg(90), Deg(90), Deg(90))
                \/ current_positions[leg] = Standing(leg)

\* C30, the standing pose: from it, every full step leaves knee and ankle of
\* every leg as in that pose
C30_StandingKept ==
    (Stood /\ \A t \in TaskIds : ~InCycle(t)) =>
            \A leg \in Legs :
                /\ current_positions[leg].knee = Standing(leg).knee
                /\ current_positions[leg].ankle = Standing(leg).ankle

Turned(hip, d) ==
    IF hip + d > Deg(135) THEN Deg(135)
    ELSE IF hip + d < Deg(45) THEN Deg(45) ELSE hip + d

\* C31: a turn step on one leg copies the leg, stores the lift, then the
\* copy with hip = min(135, max(45, hip + turn_angle)) for a left turn and
\* min(135, max(45, hip - turn_angle)) for a right turn, then the lowered
\* leg, in that order, and changes no other leg; for a thread running alone
\* the hip turned is the stored one and knee and ankle stay as lifted
C31_TurnStep ==
    [][\A t \in TaskIds :
          (Steps(t) /\ tasks[t].kind = "turn" /\ tasks[t].pc \in {"read", "write"}) =>
              LET r == tasks[t]
                  q == tasks'[t]
                  leg == TurnOrder(r.dir)[r.i]
                  d == IF r.dir = "left" THEN r.len ELSE -r.len
              IN  /\ \A other \in Legs \ {leg} :
                        current_positions'[other] = current_positions[other]
                  /\ r.pc = "read" =>
                        /\ q.pc = "write" /\ q.phase = "lift"
                        /\ q.cur.hip = current_positions[leg].hip
                        /\ UNCHANGED current_positions
                  /\ r.pc = "write" =>
                        /\ current_positions'[leg] = r.cur
                        /\ r.phase = "lift" =>
                              /\ q.pc = "write" /\ q.phase = "rotate"
                              /\ q.cur = [r.cur EXCEPT !.hip = Turned(r.cur.hip, d)]
                        /\ r.phase = "rotate" =>
                              /\ q.pc = "write" /\ q.phase = "lower"
                              /\ q.cur.hip = r.cur.hip
                              /\ (Len(tasks) = 1 /\ CallerIdle) =>
                                    current_positions' =
                                        With(leg, "hip", Turned(current_positions[leg].hip, d))
                        /\ r.phase = "lower" => q.pc \in {"for", "while"}]_vars

\* a left turn in its second pass has turned front_left, at 120 after the
\* first pass, to the limit of 135 and is about to lower it
C31_TurnedToLimit ==
    \E t \in TaskIds :
        /\ tasks[t].kind = "turn" /\ tasks[t].dir = "left"
        /\ tasks[t].pc = "write" /\ tasks[t].phase = "lower" /\ tasks[t].i = 1
        /\ current_positions["front_left"].hip = Deg(135)
        /\ current_positions["rear_right"].hip = Deg(90) + Deg(TurnAngle)

\* the client thread, inside smooth_move_leg, begins a set_leg_position call
SmoothUpdateBegins ==
    /\ caller'.op = "smooth"
    /\ caller.op = "idle" \/ caller'.step # caller.step

\* C32: for a known leg, smooth_move_leg makes exactly int(duration * 20)
\* updates through set_leg_position, the k-th (k = 1 .. steps) writing
\* start + (target - start) * k / steps for every joint, start being the
\* leg's stored position when the call began
C32_StepsUpdates ==
    [][SmoothUpdateBegins =>
          /\ caller'.step \in 1 .. caller'.steps
          /\ caller'.todo =
                Entries(Interp(caller'.start, caller'.target, caller'.step, caller'.steps))
          /\ caller.op = "idle" =>
                /\ caller'.step = 1
                /\ caller'.start = current_positions[caller'.leg]]_vars

\* smooth_move_leg returns
SmoothReturns ==
    /\ caller'.op = "idle"
    /\ caller.op = "smooth" \/ (caller.op = "idle" /\ caller'.ns > caller.ns)
    /\ caller'.arg \in Legs

\* C33: for a known leg, a full target and every duration > 0, durations
\* under 0.05 s included, smooth_move_leg returns True and the leg's stored
\* position at return is the target clamped to [0, 180], provided no other
\* thread writes that leg during the call
C33_SmoothReachesTarget ==
    [][SmoothReturns =>
          /\ caller'.ret = "True"
          /\ caller.op = "smooth"
          /\ tasks = << >> =>
                current_positions'[caller'.arg] =
                    Angles(Clamp(caller.target.hip), Clamp(caller.target.knee),
                           Clamp(caller.target.ankle))]_vars

\* C36: a gait thread's set_leg_position never changes a joint the gait
\* does not set itself (the ankle of a front leg, the knee of a rear leg):
\* what another caller has stored there meanwhile is not overwritten by the
\* gait's older copy of the leg
C36_NoStaleWriteBack ==
    [][\A t \in TaskIds :
          (Steps(t) /\ tasks[t].pc = "write") =>
              LET leg == TaskLeg(tasks[t])
              IN  IF leg \in FrontLegs
                  THEN current_positions'[leg].ankle = current_positions[leg].ankle
                  ELSE current_positions'[leg].knee = current_positions[leg].knee]_vars

\* walking in direction dir pushes the hip of leg up (left legs forward,
\* right legs backward) or down
PushedUp(leg, dir) == (leg \in LeftLegs) <=> (dir = "forward")

----------------------------------------------------------------------------
(* Properties: NavigationAI and the controller *)

\* the last get_next_movement_command call was made with a goal set
DecidedWithGoal == nav_in.called /\ nav_in.goal.set

\* distance and bearing from the position of the last call to its goal
InDistance ==
    calculate_distance(nav_in.latitude, nav_in.longitude,
                       nav_in.goal.latitude, nav_in.goal.longitude)

InBearing ==
    calculate_bearing(nav_in.latitude, nav_in.longitude,
                      nav_in.goal.latitude, nav_in.goal.longitude)

\* the last call's obstacle list holds a center obstacle closer than 2.0
CenterClose ==
    \E n \in 1 .. Len(nav_in.obstacles) :
        /\ nav_in.obstacles[n].position = "center"
        /\ "distance_estimate" \in DOMAIN nav_in.obstacles[n]
        /\ nav_in.obstacles[n].distance_estimate < 20

\* C7: below 1.0 m from the goal the command is stop with goal_achieved,
\* whatever the heading and the obstacle list.
C7_ArrivalFirst ==
    (DecidedWithGoal /\ InDistance < 1000)
        => /\ nav_command.command = "stop"
           /\ nav_command.goal_achieved
           /\ nav_command.reason = "Goal reached"

\* C7 witness: arrival decided with a close center obstacle in view and the
\* goal behind
C7_ArrivedDespiteObstacle ==
    /\ DecidedWithGoal
    /\ InDistance < 1000
    /\ InDistance > 0
    /\ CenterClose
    /\ nav_in.heading = 1800
    /\ nav_command.goal_achieved

\* C9: with no goal set the command is stop with reason 'No goal set', for
\* every position, heading and obstacle list.
C9_NoGoalStops ==
    (nav_in.called /\ ~nav_in.goal.set)
        => nav_command = Command("stop", "No goal set", FALSE, -1, -1, -1)

\* C9 witness: a decision without a goal, with a close center obstacle in view
C9_DecidedWithoutGoal ==
    /\ nav_in.called
    /\ ~nav_in.goal.set
    /\ CenterClose
    /\ nav_in.heading # 0
    /\ nav_command.reason = "No goal set"

\* relative = (bearing - heading + 360) mod 360 of the last call, in tenths
InRelative == (InBearing - nav_in.heading + 3600) % 3600

\* C10: with a goal set, distance >= 1.0 m and no obstacle override, the
\* command is forward with speed min(1.0, distance/10) if relative < 15 or
\* relative > 345, turn_right with angle min(relative, 45) if
\* 15 <= relative < 180, turn_left with angle min(360 - relative, 45)
\* otherwise; exactly one of the three cases applies.
C10_SteeringBuckets ==
    (DecidedWithGoal /\ InDistance >= 1000 /\ ~CenterClose)
        => LET forward == InRelative < 150 \/ InRelative > 3450
               right == 150 <= InRelative /\ InRelative < 1800
               left == 1800 <= InRelative /\ InRelative <= 3450
           IN  /\ forward =>
                     /\ nav_command.command = "forward"
                     /\ nav_command.speed = Min(10000, InDistance)
               /\ right =>
                     /\ nav_command.command = "turn_right"
                     /\ nav_command.angle = Min(InRelative, 450)
               /\ left =>
                     /\ nav_command.command = "turn_left"
                     /\ nav_command.angle = Min(3600 - InRelative, 450)
               /\ (forward /\ ~right /\ ~left) \/ (~forward /\ right /\ ~left)
                     \/ (~forward /\ ~right /\ left)

\* C10 witness: a left turn decided at relative = 180 exactly, obstacles in
\* view that do not override
C10_LeftAt180 ==
    /\ DecidedWithGoal
    /\ InDistance >= 1000
    /\ ~CenterClose
    /\ nav_in.obstacles # << >>
    /\ InRelative = 1800
    /\ nav_command.command = "turn_left"

\* the obstacles of the last call at a position, by index
At(position) ==
    {n \in 1 .. Len(nav_in.obstacles) : nav_in.obstacles[n].position = position}

\* 60 / max(distance_estimate, 0.5) of the n-th obstacle of the last call, a
\* missing distance_estimate read as 1.0
Nearness(n) ==
    LET o == nav_in.obstacles[n]
        d == IF "distance_estimate" \in DOMAIN o THEN o.distance_estimate ELSE 10
    IN  600 \div (IF d < 5 THEN 5 ELSE d)

RECURSIVE SumNearness(_)
SumNearness(ns) ==
    IF ns = {} THEN 0
    ELSE LET n == CHOOSE m \in ns : TRUE
         IN  Nearness(n) + SumNearness(ns \ {n})

\* a side's score, times 60: its number of obstacles plus the sum of
\* 1/max(distance_estimate, 0.5) over them
Score(position) == 60 * Cardinality(At(position)) + SumNearness(At(position))

\* the last call returned the obstacle override's turn
Overridden ==
    nav_command.reason \in {"Avoiding obstacle - turn left", "Avoiding obstacle - turn right"}

\* C11: the obstacle override fires exactly when some center obstacle has
\* distance_estimate < 2; it then returns a 30 degree turn, turn_left when
\* left_score < right_score and turn_right otherwise (also on a tie); for
\* [{center, 1.0}, {right, 1.0}] the result is turn_left with angle 30.
C11_OverrideRule ==
    (DecidedWithGoal /\ InDistance >= 1000)
        => /\ Overridden <=> CenterClose
           /\ CenterClose =>
                 /\ nav_command.angle = 300
                 /\ nav_command.command =
                       IF Score("left") < Score("right") THEN "turn_left" ELSE "turn_right"
           /\ nav_in.obstacles = << Obstacle("center", 10), Obstacle("right", 10) >>
                 => (nav_command.command = "turn_left" /\ nav_command.angle = 300)

\* C11 witness: the override fired on a tie of non-zero scores
C11_TieTurnsRight ==
    /\ DecidedWithGoal
    /\ InDistance >= 1000
    /\ CenterClose
    /\ Score("left") = Score("right")
    /\ Score("left") > 0
    /\ nav_command.command = "turn_right"

\* C12: with a goal set, distance >= 1.0 m and no center obstacle closer
\* than 2, the command equals the one returned for the empty obstacle list
\* at the same position and heading; when the override fires its turn is
\* returned instead of the steering command.
C12_ObstaclesIrrelevant ==
    (DecidedWithGoal /\ InDistance >= 1000)
        => LET bare == get_next_movement_command(nav_in.goal, nav_in.latitude,
                           nav_in.longitude, nav_in.heading, << >>)
           IN  IF CenterClose
               THEN Overridden /\ nav_command # bare
               ELSE nav_command = bare

\* C12 witness: forward decided with a far center obstacle and a left
\* obstacle in view
C12_ForwardPastObstacles ==
    /\ DecidedWithGoal
    /\ InDistance >= 1000
    /\ nav_in.obstacles = << Obstacle("center", 30), Obstacle("left", 10) >>
    /\ nav_command.command = "forward"

\* C13: an autonomous tick without a position fix returns before the
\* decision: current_command, the moving flag, the gait threads,
\* autonomous_mode and the goal are unchanged, and so is everything else.
C13_TickSkipped ==
    [][(tick_result' = NoDecision /\ tick_result # NoDecision)
          => /\ UNCHANGED <<current_command, moving, tasks, autonomous_mode, current_goal>>
             /\ UNCHANGED <<movement_active, nav_in, nav_command, stopCalls,
                            current_positions>>]_vars

\* C13 witness: a tick was skipped while a gait started by an earlier tick
\* is running
C13_SkippedWhileMoving ==
    /\ tick_result = NoDecision
    /\ ~gps_location.fix
    /\ autonomous_mode
    /\ current_goal.set
    /\ moving
    /\ \E t \in TaskIds : Alive(t)
    /\ current_command.command = "forward"

\* C14: a call of get_next_movement_command or of calculate_path_to_goal
\* leaves the obstacle map as it was, and the goal it read is the goal that
\* is stored after it (navigate_to sets the goal, then plans for that goal)
C14_PlannerOnlyReads ==
    [][/\ nav_in' # nav_in =>
            /\ UNCHANGED <<current_goal, obstacle_map>>
            /\ nav_in'.goal = current_goal'
       /\ plan' # plan =>
            /\ UNCHANGED obstacle_map
            /\ plan'.goal = current_goal']_vars

C14_ReadWithGoalAndMap ==
    /\ plan.called /\ plan.path.type = "waypoint" /\ plan.obstacles # << >>
    /\ nav_in.called /\ nav_command.command = "forward"
    /\ current_goal = plan.goal /\ current_goal = nav_in.goal
    /\ DOMAIN obstacle_map # {}

\* the distance between the start and the goal of the last planning call
PlanDistance ==
    calculate_distance(plan.latitude, plan.longitude, plan.goal.latitude, plan.goal.longitude)

\* a planning call was made with a goal set
PlannedWithGoal == plan.called /\ plan.goal.set

\* x is the fraction i / n of the way from a to b, to the nearest micro-degree
Interpolated(x, a, b, i, n) == 2 * Abs(n * (x - a) - (b - a) * i) <= n

\* C15: with a goal set, calculate_path_to_goal returns a direct path whose
\* only waypoint is the goal when the distance is under 2 m; otherwise a
\* waypoint path of max(2, floor(distance / 10 m)) waypoints with the ids
\* 1..n in order, and, when no obstacle list is given, the i-th at progress
\* i / n and the last one at the goal; 95 m gives 9 waypoints
C15_PathShape ==
    PlannedWithGoal =>
        LET path == plan.path
            tens == PlanDistance \div 10000
            n == IF tens > 2 THEN tens ELSE 2
        IN  IF PlanDistance < 2000
            THEN path.type = "direct" /\ path.waypoints = <<plan.goal>>
            ELSE /\ path.type = "waypoint"
                 /\ Len(path.waypoints) = n
                 /\ \A i \in 1 .. n : path.waypoints[i].waypoint_id = i
                 /\ (PlanDistance \div 1000 = 94) => Len(path.waypoints) = 9
                 /\ plan.obstacles = << >> =>
                      /\ \A i \in 1 .. n :
                            /\ Interpolated(path.waypoints[i].latitude, plan.latitude,
                                            plan.goal.latitude, i, n)
                            /\ Interpolated(path.waypoints[i].longitude, plan.longitude,
                                            plan.goal.longitude, i, n)
                      /\ path.waypoints[n].latitude = plan.goal.latitude
                      /\ path.waypoints[n].longitude = plan.goal.longitude

C15_NineWaypoints ==
    /\ PlannedWithGoal /\ plan.obstacles = << >>
    /\ PlanDistance > 94900 /\ PlanDistance < 95000
    /\ plan.path.type = "waypoint" /\ Len(plan.path.waypoints) = 9

\* the last planning call adjusted its waypoints for an obstacle list
Adjusted == PlannedWithGoal /\ plan.path.type = "waypoint" /\ plan.obstacles # << >>

\* the list adjust_waypoints_for_obstacles was given by the last planning call
Interpolation ==
    generate_waypoints(plan.latitude, plan.longitude,
                       plan.goal.latitude, plan.goal.longitude, << >>)

\* waypoint is within radius + safety distance of an obstacle of the list
Hits(waypoint) == Conflicts(waypoint, plan.obstacles)

SamePlace(a, b) == a.latitude = b.latitude /\ a.longitude = b.longitude

\* C16: adjust_waypoints_for_obstacles returns as many waypoints as it was
\* given, with the same ids in the same order; a waypoint that conflicts
\* with no obstacle is returned unchanged; a conflicting one is returned as
\* one of its probes that conflicts with no obstacle, without warning, or at
\* its own place with a warning, the latter exactly when every probe
\* conflicts with some obstacle
C16_AdjustKeepsWaypoints ==
    Adjusted =>
        LET given == Interpolation
            out == plan.path.waypoints
        IN  /\ Len(out) = Len(given)
            /\ \A i \in 1 .. Len(given) :
                  /\ out[i].waypoint_id = given[i].waypoint_id
                  /\ ~Hits(given[i]) => out[i] = given[i]
                  /\ Hits(given[i]) =>
                        /\ \/ /\ ~out[i].warning
                              /\ ~Hits(out[i])
                              /\ \E k \in 1 .. ProbeCount : out[i] = Probe(given[i], k)
                           \/ /\ out[i].warning
                              /\ SamePlace(out[i], given[i])
                        /\ out[i].warning <=>
                              \A k \in 1 .. ProbeCount : Hits(Probe(given[i], k))

C16_MovedToSecondProbe ==
    /\ Adjusted
    /\ Hits(Interpolation[1]) /\ Hits(Probe(Interpolation[1], 1))
    /\ plan.path.waypoints[1] = Probe(Interpolation[1], 2)
    /\ plan.path.waypoints[2] = Interpolation[2]

\* the waypoints the last planning call searched alternatives for
Searched == { i \in 1 .. Len(Interpolation) : Hits(Interpolation[i]) }

\* C17: find_safe_waypoint probes 8 pairwise distinct directions 45 degrees
\* apart, in a fixed order, and returns the first probe that conflicts with
\* no obstacle
C17_EightDirections ==
    Adjusted =>
        \A i \in Searched :
            /\ \A j, k \in 1 .. ProbeCount :
                  j < k => /\ ProbeAngle(k) - ProbeAngle(j) = 450 * (k - j)
                           /\ ~SamePlace(Probe(Interpolation[i], j), Probe(Interpolation[i], k))
            /\ \A k \in 1 .. ProbeCount :
                  (/\ ~Hits(Probe(Interpolation[i], k))
                   /\ \A j \in 1 .. k - 1 : Hits(Probe(Interpolation[i], j)))
                     => plan.path.waypoints[i] = Probe(Interpolation[i], k)

\* the obstacles add_obstacle_to_map has stored, in the planner's units
MapObstacles(map) ==
    { MapObstacle(RoundDiv(map[k].latitude, 10), RoundDiv(map[k].longitude, 10), map[k].radius) :
        k \in { id \in DOMAIN map : id[1] = "coord" } }

\* C18: the path a navigate request returns has no waypoint without a
\* warning that lies within radius + 0.5 m of an obstacle of the map
C18_PathAvoidsMap ==
    [][(plan' # plan /\ plan'.request) =>
          \A i \in 1 .. Len(plan'.path.waypoints) :
              LET waypoint == plan'.path.waypoints[i]
              IN  Get(waypoint, "warning", FALSE)
                    \/ \A obstacle \in MapObstacles(obstacle_map) :
                          ~point_in_obstacle(waypoint, obstacle)]_vars

\* the coordinate entries of the map
CoordKeys == { k \in DOMAIN obstacle_map : k[1] = "coord" }

\* x at 1e-6 resolution, in micro-degrees
Quantized(x) == RoundDiv(x, 10)

\* two entries hold the same coordinate at 1e-6 resolution
SameCell(a, b) ==
    /\ Quantized(a.latitude) = Quantized(b.latitude)
    /\ Quantized(a.longitude) = Quantized(b.longitude)

\* C19: add_obstacle_to_map is an upsert on the coordinate quantized to 6
\* decimals: inserts that agree at 1e-6 resolution leave a single entry, which
\* holds the values of the later one
C19_OneEntryPerCell ==
    \A j, k \in CoordKeys :
        SameCell(obstacle_map[j], obstacle_map[k]) => j = k

\* the keys a step removes from the map
Removed == DOMAIN obstacle_map \ DOMAIN obstacle_map'

\* the age of an entry
Age(entry) == now - entry.timestamp

\* C20: a step that removes entries from the map is a clear_old_obstacles
\* call that removes exactly the entries older than its max_age and changes
\* no other entry, nor anything the planner and the decision engine keep; no
\* other step removes an entry
C20_OnlySweepRemoves ==
    [][Removed # {} =>
          /\ swept'.called /\ swept'.time = now /\ swept'.removed = Removed
          /\ Removed = { k \in DOMAIN obstacle_map : Age(obstacle_map[k]) > swept'.max_age }
          /\ \A k \in DOMAIN obstacle_map \ Removed :
                /\ k \in DOMAIN obstacle_map'
                /\ obstacle_map'[k] = obstacle_map[k]
          /\ DOMAIN obstacle_map' \subseteq DOMAIN obstacle_map
          /\ UNCHANGED <<current_goal, nav_in, nav_command, plan>>]_vars

\* a sweep has removed an entry and left one aged exactly max_age
C20_SweptKeepingMaxAge ==
    /\ swept.called /\ swept.time = now /\ swept.removed # {}
    /\ \E k \in DOMAIN obstacle_map :
          /\ Age(obstacle_map[k]) = swept.max_age
          /\ swept.max_age > 0

\* the keys of an obstacle dict as add_obstacle_to_map stores it
ObstacleKeys == {"latitude", "longitude", "radius", "type", "timestamp"}

\* C21: every entry of the obstacle map is an obstacle record (latitude,
\* longitude, radius, kind, observation time) stored under the key built
\* from its coordinates
C21_EntriesAreObstacles ==
    \A k \in DOMAIN obstacle_map :
        /\ DOMAIN obstacle_map[k] = ObstacleKeys
        /\ k = ObstacleId(obstacle_map[k].latitude, obstacle_map[k].longitude)

\* the atan2 result of the last decision's bearing, in tenths of a degree
InAtan2 ==
    Atan2Tenths(nav_in.goal.longitude - nav_in.longitude,
                nav_in.goal.latitude - nav_in.latitude)

\* the last decision was made away from the goal's coordinates
InDistinct ==
    nav_in.latitude # nav_in.goal.latitude \/ nav_in.longitude # nav_in.goal.longitude

\* C23: for two distinct coordinates calculate_bearing returns a value in
\* [0, 360): an atan2 result in [-180, 180] is kept when it is not negative
\* and raised by 360 when it is
C23_BearingRange ==
    (DecidedWithGoal /\ InDistinct) =>
        /\ InBearing >= 0 /\ InBearing < 3600
        /\ InAtan2 >= -1800 /\ InAtan2 <= 1800
        /\ InBearing = IF InAtan2 < 0 THEN InAtan2 + 3600 ELSE InAtan2

\* a bearing to the south-west, where atan2 is negative
C23_SouthWest ==
    /\ DecidedWithGoal /\ InDistinct
    /\ InAtan2 < -900
    /\ InBearing > 1800 /\ InBearing < 2700

\* C25: an autonomous tick whose command is forward while forward is the
\* command being executed by a live gait thread starts no further gait
\* thread
C25_TickKeepsTask ==
    [][(/\ tick_result'.command = "forward"
        /\ current_command.command = "forward"
        /\ AliveTasks # {})
          => Len(tasks') = Len(tasks)]_vars

\* the last command of the controller was an external stop(): no tick has
\* decided and no navigate request was made since
ExternallyStopped == current_command.command = "stop" /\ tick_result = NoCommand

\* C34: after an external stop() during autonomous navigation, with no
\* navigate and no move command since, a decision tick starts no gait toward
\* the goal that was active at the stop
C34_StopCancelsGoal ==
    [][(/\ ExternallyStopped
        /\ autonomous_mode /\ current_goal.set
        /\ tick_result' # NoCommand)
          => /\ Len(tasks') = Len(tasks)
             /\ moving' = moving]_vars

\* the last tick returned stop with goal_achieved, and no command came since
Arrived == tick_result.command = "stop" /\ tick_result.goal_achieved

\* C35: when an autonomous tick returns stop with goal_achieved, the moving
\* flag and movement_active are cleared and autonomous_mode is False; while
\* autonomous mode is off no tick decides anything or starts a gait
C35_ArrivalEndsNavigation ==
    /\ [](Arrived => ~moving /\ ~movement_active /\ ~autonomous_mode)
    /\ [][~autonomous_mode =>
            /\ tick_result' = tick_result \/ tick_result' = NoCommand
            /\ (tick_result' = tick_result /\ tick_result # NoCommand) =>
                  /\ Len(tasks') = Len(tasks)
                  /\ UNCHANGED <<moving, movement_active, current_command, stopCalls>>]_vars

\* a tick has returned stop with goal_achieved while the gait thread started
\* by an earlier tick was running
C35_ArrivedWhileWalking ==
    /\ Arrived
    /\ current_command.command = "stop"
    /\ stopCalls >= 1
    /\ \E t \in TaskIds : Alive(t)

\* C37: a navigate request made through execute_command('gps', ...) sets the
\* navigation goal to (lat, lon) and returns a result record, for every
\* numeric pair, a latitude or longitude of exactly 0 included
C37_NavigateSetsGoal ==
    [][reply' # reply =>
          /\ reply'.status = "success"
          /\ current_goal' = Goal(reply'.latitude, reply'.longitude)]_vars

\* C39: a gait thread ends only after it has read the moving flag as False,
\* whatever the speed of the move command, 0 included: the state "moving
\* and movement_active both True with no gait thread running" is never
\* reached
C39_MovingHasThread ==
    /\ [][\A t \in TaskIds :
            (Steps(t) /\ tasks'[t].pc \in {"done", "crashed"}) => ~moving]_vars
    /\ []((moving /\ movement_active) =>
             \E t \in TaskIds : tasks[t].pc \notin {"done", "crashed"})

\* C8: after an autonomous tick whose command is stop with goal_achieved the
\* navigation goal is cleared (current_goal is unset before the next tick).
C8_GoalClearedOnArrival == tick_result.goal_achieved => ~current_goal.set

====
